---- MODULE Spec2Model ----
(***************************************************************************)
(* A model of the authentication manager of cockpit-ws                     *)
(* (src/ws/cockpitauth.c): login_async / login_finish, the spawn, remote   *)
(* (ssh), none and resume methods, the table of pending dialogues, the     *)
(* table of authenticated sessions with their idle timers, and the         *)
(* MaxStartups admission throttle.                                         *)
(*                                                                         *)
(* C strings are sequences of byte values (ASCII codes), so that the       *)
(* parsing, splitting and base64 the code performs are computed, not       *)
(* assumed.                                                                *)
(***************************************************************************)
EXTENDS Integers, Sequences, FiniteSets, TLC

(* ------------------------------------------------------------------ *)
(* Bounds of the model                                                 *)
(* ------------------------------------------------------------------ *)

\* number of cockpit_auth_login_async calls in one behaviour
MaxBegins == 2

\* the largest number of attempts in flight can_start_auth is asked about
MaxInFlight == 12

(* ------------------------------------------------------------------ *)
(* Program constants                                                   *)
(* ------------------------------------------------------------------ *)

\* static guint max_startups = 10
max_startups_default == 10

(* ------------------------------------------------------------------ *)
(* Byte strings                                                        *)
(* ------------------------------------------------------------------ *)

sBasicLc == <<98,97,115,105,99>>                                 \* "basic"
sNegotiateLc == <<110,101,103,111,116,105,97,116,101>>           \* "negotiate"
sOtherLc == <<111,116,104,101,114>>                              \* "other"
sLoginReplyLc == <<120,45,108,111,103,105,110,45,114,101,112,108,121>>  \* "x-login-reply"
LOGIN_REPLY_HEADER == <<88,45,76,111,103,105,110,45,82,101,112,108,121>> \* "X-Login-Reply"
sNegotiate == <<78,101,103,111,116,105,97,116,101>>              \* "Negotiate"
sCockpit == <<99,111,99,107,112,105,116>>                        \* "cockpit"
sCockpitPlus == <<99,111,99,107,112,105,116,43>>                 \* "cockpit+"
sCookiePrefix == <<118,61,50,59,107,61>>                         \* "v=2;k="
sSpace == <<32>>                                                 \* " "
sColon == <<58>>                                                 \* ":"
sSlash == <<47>>                                                 \* "/"
sEquals == <<61>>                                                \* "="
sPathAttr == <<59,32,80,97,116,104,61,47,59,32>>                 \* "; Path=/; "
sSecure == <<32,83,101,99,117,114,101,59>>                       \* " Secure;"
sHttpOnly == <<32,72,116,116,112,79,110,108,121>>                \* " HttpOnly"

\* the value a C function returns for "no string" (NULL), as opposed to ""
NoStr == [null |-> TRUE, s |-> <<>>]
Str(s) == [null |-> FALSE, s |-> s]

\* g_str_has_prefix
g_str_has_prefix(s, p) ==
    /\ Len(s) >= Len(p)
    /\ SubSeq(s, 1, Len(p)) = p

\* strchr: the index of the first c in s, 0 when there is none
strchr(s, c) ==
    IF \E i \in 1..Len(s) : s[i] = c
    THEN CHOOSE i \in 1..Len(s) : s[i] = c /\ \A j \in 1..(i - 1) : s[j] # c
    ELSE 0

\* the rest of s from index i on
StrFrom(s, i) == SubSeq(s, i, Len(s))

RECURSIVE str_skip(_, _)
str_skip(v, c) ==
    IF v # <<>> /\ Head(v) = c THEN str_skip(Tail(v), c) ELSE v

g_ascii_tolower(c) == IF c >= 65 /\ c <= 90 THEN c + 32 ELSE c

StrLower(s) == [i \in 1..Len(s) |-> g_ascii_tolower(s[i])]

(* ------------------------------------------------------------------ *)
(* base64 (GLib)                                                       *)
(* ------------------------------------------------------------------ *)

\* "ABCDEFGHIJKLMNOPQRSTUVWXYZabcdefghijklmnopqrstuvwxyz0123456789+/"
base64_alphabet ==
    [i \in 1..64 |->
        IF i <= 26 THEN 64 + i
        ELSE IF i <= 52 THEN 70 + i
        ELSE IF i <= 62 THEN i - 5
        ELSE IF i = 63 THEN 43 ELSE 47]

\* mime_base64_rank: 0xff for a byte outside the alphabet, 0 for '='
mime_base64_rank(c) ==
    IF c >= 65 /\ c <= 90 THEN c - 65
    ELSE IF c >= 97 /\ c <= 122 THEN c - 71
    ELSE IF c >= 48 /\ c <= 57 THEN c + 4
    ELSE IF c = 43 THEN 62
    ELSE IF c = 47 THEN 63
    ELSE IF c = 61 THEN 0
    ELSE 255

RECURSIVE g_base64_encode(_)
g_base64_encode(s) ==
    IF Len(s) = 0 THEN <<>>
    ELSE IF Len(s) = 1 THEN
        << base64_alphabet[(s[1] \div 4) + 1],
           base64_alphabet[((s[1] % 4) * 16) + 1],
           sEquals[1], sEquals[1] >>
    ELSE IF Len(s) = 2 THEN
        << base64_alphabet[(s[1] \div 4) + 1],
           base64_alphabet[((s[1] % 4) * 16 + (s[2] \div 16)) + 1],
           base64_alphabet[((s[2] % 16) * 4) + 1],
           sEquals[1] >>
    ELSE
        << base64_alphabet[(s[1] \div 4) + 1],
           base64_alphabet[((s[1] % 4) * 16 + (s[2] \div 16)) + 1],
           base64_alphabet[((s[2] % 16) * 4 + (s[3] \div 64)) + 1],
           base64_alphabet[(s[3] % 64) + 1] >>
        \o g_base64_encode(SubSeq(s, 4, Len(s)))

\* g_base64_decode_step: bytes outside the alphabet are skipped, every four
\* alphabet bytes give up to three output bytes, fewer after '='.
\* i counts the pending sextets, l0 and l1 are the last two alphabet bytes
\* seen, v is the accumulator: the code keeps 32 bits of it and writes bits
\* 0..23 only, so the model keeps those 24 bits.
RECURSIVE g_base64_decode_step(_, _, _, _, _)
g_base64_decode_step(in, i, v, l0, l1) ==
    IF in = <<>> THEN <<>>
    ELSE
        LET c == Head(in)
            rank == mime_base64_rank(c)
        IN  IF rank = 255 THEN g_base64_decode_step(Tail(in), i, v, l0, l1)
            ELSE
                LET nv == (v * 64 + rank) % 16777216
                IN  IF i + 1 = 4
                    THEN << (nv \div 65536) % 256 >>
                         \o (IF l0 # sEquals[1] THEN << (nv \div 256) % 256 >> ELSE <<>>)
                         \o (IF c # sEquals[1] THEN << nv % 256 >> ELSE <<>>)
                         \o g_base64_decode_step(Tail(in), 0, nv, c, l0)
                    ELSE g_base64_decode_step(Tail(in), i + 1, nv, c, l0)

\* g_base64_decode_inplace: NULL (a failed g_return_val_if_fail) when the
\* text is not longer than one byte, else whatever the lenient decoder gives
g_base64_decode_inplace(text) ==
    IF Len(text) > 1 THEN Str(g_base64_decode_step(text, 0, 0, 0, 0)) ELSE NoStr

(* ------------------------------------------------------------------ *)
(* Nonces                                                              *)
(* ------------------------------------------------------------------ *)

hex_digits == <<48,49,50,51,52,53,54,55,56,57,97,98,99,100,101,102>>   \* "0123456789abcdef"

\* g_compute_hmac_for_data (SHA256, key, seed): the lower-case hex digest.
\* HMAC-SHA-256 under the fixed process key is taken to be collision free on
\* the seeds a run uses; the digest is written as the two hex digits of the
\* seed instead of 64 hex digits.
g_compute_hmac_for_data(seed) ==
    << hex_digits[((seed \div 16) % 16) + 1], hex_digits[(seed % 16) + 1] >>

\* cockpit_auth_nonce with a counter that is read but not advanced
cockpit_auth_nonce_stuck(seed) ==
    [nonce |-> g_compute_hmac_for_data(seed), seed |-> seed]

\* cockpit_auth_nonce: seed = self->nonce_seed++; the nonce and the new
\* counter.  The counter is a guint64; a run of the model stays far below
\* its width.
cockpit_auth_nonce(seed) ==
    [nonce |-> g_compute_hmac_for_data(seed), seed |-> seed + 1]

(* ------------------------------------------------------------------ *)
(* Request parsing                                                     *)
(* ------------------------------------------------------------------ *)

\* a request's header table: a function from header names to byte strings
NoHeaders == [n \in {} |-> <<>>]
HasHeader(headers, name) == name \in DOMAIN headers

\* cockpit_auth_parse_authorization_type: the lower-cased first word of the
\* Authorization header, NULL without the header or without a space
cockpit_auth_parse_authorization_type(headers) ==
    IF ~HasHeader(headers, "Authorization") THEN NoStr
    ELSE LET line == str_skip(headers["Authorization"], sSpace[1])
             next == strchr(line, sSpace[1])
         IN  IF next = 0 THEN NoStr
             ELSE Str(StrLower(SubSeq(line, 1, next - 1)))

\* cockpit_auth_parse_authorization: the contents after the type, base64
\* decoded on demand; NULL without the header, without a space, or when
\* g_base64_decode_inplace gives NULL
cockpit_auth_parse_authorization(headers, base64_decode) ==
    IF ~HasHeader(headers, "Authorization") THEN NoStr
    ELSE LET line == str_skip(headers["Authorization"], sSpace[1])
             next == strchr(line, sSpace[1])
         IN  IF next = 0 THEN NoStr
             ELSE LET contents == str_skip(StrFrom(line, next), sSpace[1])
                  IN  IF base64_decode
                      THEN g_base64_decode_inplace(contents)
                      ELSE Str(contents)

\* parse_basic_auth_password: user and password around the first ':'
parse_basic_auth_password(input) ==
    LET colon == strchr(input, sColon[1])
    IN  IF colon = 0
        THEN [password |-> NoStr, user |-> NoStr]
        ELSE [password |-> Str(StrFrom(input, colon + 1)),
              user |-> Str(SubSeq(input, 1, colon - 1))]

\* auth_parse_application / cockpit_auth_parse_application: NULL for a path
\* that does not start with '/', the first segment when it is "cockpit+x",
\* else "cockpit"
cockpit_auth_parse_application(path) ==
    IF path = <<>> \/ Head(path) # sSlash[1] THEN NoStr
    ELSE LET rest == Tail(path)
         IN  IF g_str_has_prefix(rest, sCockpitPlus) /\ Len(rest) > Len(sCockpitPlus)
             THEN LET pos == strchr(rest, sSlash[1])
                  IN  IF pos # 0 THEN Str(SubSeq(rest, 1, pos - 1)) ELSE Str(rest)
             ELSE Str(sCockpit)

\* g_strsplit (header, " ", 3): at most three pieces, cut at the first two
\* spaces; no piece for the empty string
g_strsplit3(header) ==
    IF header = <<>> THEN <<>>
    ELSE LET i1 == strchr(header, sSpace[1])
         IN  IF i1 = 0 THEN << header >>
             ELSE LET rest == StrFrom(header, i1 + 1)
                      i2 == strchr(rest, sSpace[1])
                  IN  IF i2 = 0
                      THEN << SubSeq(header, 1, i1 - 1), rest >>
                      ELSE << SubSeq(header, 1, i1 - 1),
                              SubSeq(rest, 1, i2 - 1),
                              StrFrom(rest, i2 + 1) >>

(* ------------------------------------------------------------------ *)
(* Method chooser                                                      *)
(* ------------------------------------------------------------------ *)

ACTION_SPAWN_HEADER == "spawn-login-with-header"
ACTION_SPAWN_DECODE == "spawn-login-with-decoded"
ACTION_SSH == "remote-login-ssh"
ACTION_LOGIN_REPLY == "x-login-reply"
ACTION_NONE == "none"

\* action_for_type that asks the configuration before it forces ssh
action_for_type_conf_first(type, force_ssh, conf) ==
    IF type = sLoginReplyLc THEN ACTION_LOGIN_REPLY
    ELSE IF type \in DOMAIN conf THEN conf[type]
    ELSE IF force_ssh /\ type = sBasicLc THEN ACTION_SSH
    ELSE IF type = sBasicLc \/ type = sNegotiateLc THEN ACTION_SPAWN_DECODE
    ELSE ACTION_NONE

\* action_for_type; conf maps the types that have an "action" key in the
\* configuration file to its value
action_for_type(type, force_ssh, conf) ==
    IF type = sLoginReplyLc THEN ACTION_LOGIN_REPLY
    ELSE IF force_ssh /\ type = sBasicLc THEN ACTION_SSH
    ELSE IF type \in DOMAIN conf THEN conf[type]
    ELSE IF type = sBasicLc \/ type = sNegotiateLc THEN ACTION_SPAWN_DECODE
    ELSE ACTION_NONE

(* ------------------------------------------------------------------ *)
(* Admission                                                           *)
(* ------------------------------------------------------------------ *)

\* can_start_auth without a throttle
can_start_auth_unlimited(n, begin, rate, max, r) == TRUE

\* can_start_auth that drops a draw equal to p
can_start_auth_strict(n, begin, rate, max, r) ==
    IF max = 0 THEN TRUE
    ELSE IF n <= begin THEN TRUE
    ELSE IF n > max THEN FALSE
    ELSE IF rate = 100 THEN FALSE
    ELSE r > ((100 - rate) * (n - begin)) \div (max - begin) + rate

\* can_start_auth that throttles from the soft limit on, not beyond it
can_start_auth_from_begin(n, begin, rate, max, r) ==
    IF max = 0 THEN TRUE
    ELSE IF n < begin THEN TRUE
    ELSE IF n > max THEN FALSE
    ELSE IF rate = 100 THEN FALSE
    ELSE r >= ((100 - rate) * (n - begin)) \div (max - begin) + rate

\* the product of a (below 2^15) and b (below 2^31) in 16-bit limbs: lo and
\* hi are the 32 bits an unsigned int keeps, carry is what it loses
mul_limbs(a, b) ==
    [lo |-> (a * (b % 65536)) % 65536,
     hi |-> (a * (b \div 65536) + (a * (b % 65536)) \div 65536) % 65536,
     carry |-> (a * (b \div 65536) + (a * (b % 65536)) \div 65536) \div 65536]

\* the quotient of the unsigned int with limbs hi and lo by d (positive,
\* below 2^31), through the half of the dividend when it is 2^31 or more
div_limbs(hi, lo, d) ==
    IF hi < 32768 THEN (hi * 65536 + lo) \div d
    ELSE 2 * ((hi * 32768 + lo \div 2) \div d)
            + (IF ((hi * 32768 + lo \div 2) % d)
                      >= d - ((hi * 32768 + lo \div 2) % d) - (lo % 2)
               THEN 1 ELSE 0)

\* p of can_start_auth: "p = 100 - rate; p *= startups - begin;
\* p /= max - begin; p += rate", the product and the quotient computed in
\* unsigned int, which keeps 32 bits
can_start_p(n, begin, rate, max) ==
    div_limbs(mul_limbs(100 - rate, n - begin).hi,
              mul_limbs(100 - rate, n - begin).lo, max - begin) + rate

\* can_start_auth, with n = self->startups and r the draw of
\* g_random_int_range (0, 100)
can_start_auth(n, begin, rate, max, r) ==
    IF max = 0 THEN TRUE
    ELSE IF n <= begin THEN TRUE
    ELSE IF n > max THEN FALSE
    ELSE IF rate = 100 THEN FALSE
    ELSE r >= can_start_p(n, begin, rate, max)

\* sscanf "%u": leading digits of s as a number; ok is FALSE without a digit
RECURSIVE scan_digits(_, _)
scan_digits(s, acc) ==
    IF s # <<>> /\ Head(s) >= 48 /\ Head(s) <= 57
    THEN scan_digits(Tail(s), acc * 10 + (Head(s) - 48))
    ELSE [val |-> acc, rest |-> s]

scan_uint(s) ==
    LET t == str_skip(s, sSpace[1])
    IN  IF t # <<>> /\ Head(t) >= 48 /\ Head(t) <= 57
        THEN [ok |-> TRUE] @@ scan_digits(t, 0)
        ELSE [ok |-> FALSE, val |-> 0, rest |-> t]

\* sscanf (conf, "%u:%u:%u", &begin, &rate, &max): the count of numbers
\* read and the three targets, each left as it was when not read
sscanf_uuu(s, begin, rate, max) ==
    LET a == scan_uint(s)
    IN  IF ~a.ok THEN [count |-> 0, begin |-> begin, rate |-> rate, max |-> max]
        ELSE IF a.rest = <<>> \/ Head(a.rest) # sColon[1]
        THEN [count |-> 1, begin |-> a.val, rate |-> rate, max |-> max]
        ELSE LET b == scan_uint(Tail(a.rest))
             IN  IF ~b.ok THEN [count |-> 1, begin |-> a.val, rate |-> rate, max |-> max]
                 ELSE IF b.rest = <<>> \/ Head(b.rest) # sColon[1]
                 THEN [count |-> 2, begin |-> a.val, rate |-> b.val, max |-> max]
                 ELSE LET c == scan_uint(Tail(b.rest))
                      IN  IF ~c.ok
                          THEN [count |-> 2, begin |-> a.val, rate |-> b.val, max |-> max]
                          ELSE [count |-> 3, begin |-> a.val, rate |-> b.val, max |-> c.val]

\* cockpit_auth_new that keeps whatever sscanf stored
cockpit_auth_new_unchecked(max_startups_conf) ==
    LET defaults == [max_startups |-> max_startups_default,
                     max_startups_begin |-> max_startups_default,
                     max_startups_rate |-> 100]
    IN  IF max_startups_conf.null THEN defaults
        ELSE LET sc == sscanf_uuu(max_startups_conf.s, max_startups_default, 100,
                                  max_startups_default)
             IN  IF sc.count = 1 \/ sc.count = 2
                 THEN [max_startups |-> sc.begin, max_startups_begin |-> sc.begin,
                       max_startups_rate |-> 100]
                 ELSE [max_startups |-> sc.max, max_startups_begin |-> sc.begin,
                       max_startups_rate |-> sc.rate]

\* cockpit_auth_new: the admission counters for a MaxStartups setting
\* (NULL when there is none)
cockpit_auth_new(max_startups_conf) ==
    LET defaults == [max_startups |-> max_startups_default,
                     max_startups_begin |-> max_startups_default,
                     max_startups_rate |-> 100]
    IN  IF max_startups_conf.null THEN defaults
        ELSE LET sc == sscanf_uuu(max_startups_conf.s, max_startups_default, 100,
                                  max_startups_default)
                 m == IF sc.count = 1 \/ sc.count = 2 THEN sc.begin ELSE sc.max
                 rt == IF sc.count = 1 \/ sc.count = 2 THEN 100 ELSE sc.rate
             IN  IF sc.count < 1 \/ sc.count > 3 \/ sc.begin > m \/ rt > 100 \/ rt < 1
                 THEN defaults
                 ELSE [max_startups |-> m,
                       max_startups_begin |-> sc.begin,
                       max_startups_rate |-> rt]

(* ------------------------------------------------------------------ *)
(* Values                                                              *)
(* ------------------------------------------------------------------ *)

\* a GError: code "" stands for no error
NoError == [code |-> "", message |-> ""]
GError(code, message) == [code |-> code, message |-> message]

\* JSON values of a helper reply.  The text of the reply is not modelled:
\* a reply is what cockpit_json_parse_object makes of it.
JString(v) == [t |-> "string", v |-> v]
JNumber == [t |-> "number", v |-> <<>>]
NoMembers == [n \in {} |-> JNumber]
JObject(members) == [kind |-> "object", o |-> members]
JGarbage == [kind |-> "garbage", o |-> NoMembers]   \* not a JSON object
JNotUtf8 == [kind |-> "not-utf8", o |-> NoMembers]  \* JSON_PARSER_ERROR_INVALID_DATA
NoData == [kind |-> "null", o |-> NoMembers]        \* response_data == NULL

\* cockpit_json_get_string: ok is FALSE for a member that is not a string;
\* a missing member gives the default (NULL here)
cockpit_json_get_string(o, name) ==
    IF name \notin DOMAIN o THEN [ok |-> TRUE, null |-> TRUE, v |-> <<>>]
    ELSE IF o[name].t # "string" THEN [ok |-> FALSE, null |-> TRUE, v |-> <<>>]
    ELSE [ok |-> TRUE, null |-> FALSE, v |-> o[name].v]

\* the value of one hex digit, 255 for any other byte
hex_value(c) ==
    IF c >= 48 /\ c <= 57 THEN c - 48
    ELSE IF c >= 97 /\ c <= 102 THEN c - 87
    ELSE IF c >= 65 /\ c <= 70 THEN c - 55
    ELSE 255

\* cockpit_hex_decode: NULL for an odd length or a byte that is no hex digit
cockpit_hex_decode(hex) ==
    IF Len(hex) % 2 # 0 \/ \E i \in 1..Len(hex) : hex_value(hex[i]) = 255
    THEN NoStr
    ELSE Str([i \in 1..(Len(hex) \div 2) |->
                 hex_value(hex[2 * i - 1]) * 16 + hex_value(hex[2 * i])])

\* CockpitCreds
NoCreds == [null |-> TRUE, user |-> <<>>, application |-> <<>>,
            password |-> NoStr, csrf_token |-> <<>>]
cockpit_creds_new(user, application, password, csrf_token) ==
    [null |-> FALSE, user |-> user, application |-> application,
     password |-> password, csrf_token |-> csrf_token]

\* AuthData with its SpawnLoginData or RemoteLoginData.  pending_result is
\* the number of the attached result, 0 for NULL.  awaiting is history, not
\* a field of the code: a WWW-Authenticate challenge naming the dialogue
\* went to the client and no X-Login-Reply request has found the dialogue
\* since.
NewAuthData(tag) ==
    [tag |-> tag, refs |-> 1, pending_result |-> 0, response_data |-> NoData,
     pipe_open |-> TRUE,
     h_message |-> FALSE, h_close |-> FALSE, h_purge |-> FALSE,
     auth_type |-> <<>>, authorization |-> <<>>, application |-> <<>>,
     process_pid |-> 0, process_in |-> -1, process_out |-> -1,
     creds |-> NoCreds, has_transport_result |-> FALSE, transport |-> "none",
     problem |-> "", awaiting |-> FALSE]

\* a GSimpleAsyncResult: source tag, error, op_res_gpointer (the id of an
\* AuthData or NULL), and whether complete_in_idle has been called
NewResult(tag, error, ad, complete) ==
    [tag |-> tag, error |-> error, ad |-> ad, complete |-> complete]

\* g_simple_async_result_is_valid, for results of this manager: the tags are
\* compared unless the result has none
g_simple_async_result_is_valid(result, source_tag) ==
    result.tag = "NULL" \/ result.tag = source_tag

\* What the last operation was and what it showed its caller: the request
\* (path, the Authorization or Cookie header asked with), the attempt, the
\* method chosen, whether it was admitted, the dialogue written to and the
\* bytes sent, the error, creds, prompt and headers returned, the cookie of
\* the session made or removed, the service found, and for can_start_auth
\* its inputs.
\* what cockpit_authenticated_free leaves of a session: nothing was freed
NoFreed == [timeout_tag |-> FALSE, idling_sig |-> FALSE, destroy_sig |-> FALSE,
            service |-> "", creds |-> << >>]

NoObs == [op |-> "", task |-> 0, freed |-> NoFreed, path |-> NoStr, asked |-> NoStr,
          error |-> NoError, creds |-> NoCreds,
          prompt |-> NoStr, www_authenticate |-> NoStr, set_cookie |-> NoStr,
          cookie |-> NoStr, to |-> NoStr, sent |-> NoStr, action |-> "",
          admitted |-> TRUE, spawned |-> FALSE, service |-> NoStr,
          startups |-> 0, draw |-> 0, logged |-> "", message |-> NoData]
Obs(op) == [NoObs EXCEPT !.op = op]

\* the observation of a request for path with headers
Asked(op, path, headers, name) ==
    [Obs(op) EXCEPT !.path = Str(path),
                    !.asked = IF name \in DOMAIN headers THEN Str(headers[name]) ELSE NoStr]

(* ------------------------------------------------------------------ *)
(* Inputs                                                              *)
(* ------------------------------------------------------------------ *)

\* A deployment: the MaxStartups setting, login_loopback and the [type]
\* action keys of the configuration file
dDefault ==
    [max_startups |-> NoStr, loopback |-> FALSE, conf |-> NoHeaders]
dThrottled ==
    [max_startups |-> Str(<<49,58,49,48,48,58,49>>),           \* "1:100:1"
     loopback |-> TRUE, conf |-> (sOtherLc :> ACTION_SPAWN_HEADER)]

\* the deployments the dialogue model starts from
Deployments == { dDefault, dThrottled }

\* MaxStartups settings: none, "0", "1:100:1", "1:50:3", "2:30:5", "3", "x",
\* "5:50:2", "4:0:6", "0:50:4", "2:1:12" and "3:99:11"
AdmissionSettings ==
    { NoStr, Str(<<48>>), Str(<<49,58,49,48,48,58,49>>), Str(<<49,58,53,48,58,51>>),
      Str(<<50,58,51,48,58,53>>), Str(<<51>>), Str(<<120>>),
      Str(<<53,58,53,48,58,50>>), Str(<<52,58,48,58,54>>),
      Str(<<48,58,53,48,58,52>>), Str(<<50,58,49,58,49,50>>),
      Str(<<51,58,57,57,58,49,49>>) }
AdmissionDeployments ==
    { [max_startups |-> m, loopback |-> FALSE, conf |-> NoHeaders] :
        m \in AdmissionSettings }

sUser == <<117>>      \* "u"
sPrompt == <<84,63>>  \* "T?"

\* Authorization headers of first requests
hBasic == <<66,97,115,105,99,32,100,84,112,119>>             \* "Basic dTpw" (u:p)
hBasicNoColon == <<66,97,115,105,99,32,100,81,61,61>>        \* "Basic dQ==" (u)
hNegotiate == <<78,101,103,111,116,105,97,116,101,32,100,71,57,114>>  \* "Negotiate dG9r"
hOther == <<79,116,104,101,114,32,120>>                      \* "Other x"
hBare == <<66,97,115,105,99>>                                \* "Basic"

\* the first requests of the dialogue model: no Authorization header,
\* "Basic dTpw", "Negotiate dG9r", "Other x" and "Basic"
FirstHeaders ==
    { NoHeaders } \cup { [Authorization |-> h] : h \in {hBasic, hNegotiate, hOther, hBare} }

\* payloads of X-Login-Reply: "MTIz" (123), "", "!" and "QUJD!" (ABC, then
\* a byte outside the alphabet)
ReplyPayloads == { <<77,84,73,122>>, <<>>, <<33>>, <<81,85,74,68,33>> }

\* an id no dialogue has: "zz"
sBogusId == <<122,122>>

\* X-Login-Reply headers naming the ids in ids, with and without a payload
ResumeHeaders(ids) ==
    { [Authorization |-> LOGIN_REPLY_HEADER \o sSpace \o id \o sSpace \o p] :
        id \in ids, p \in ReplyPayloads }
    \cup { [Authorization |-> LOGIN_REPLY_HEADER \o sSpace \o id] : id \in ids }

sRoot == <<47>>                                          \* "/"
sAppPath == <<47,99,111,99,107,112,105,116,43,97,47,120>>  \* "/cockpit+a/x"
Paths == { sRoot, sAppPath }

\* replies of a helper
rUser == JObject([user |-> JString(sUser)])
rPrompt == JObject([prompt |-> JString(sPrompt)])
rUnavailable == JObject([error |-> JString("authentication-unavailable")])
HelperReplies == { rUser, rPrompt, rUnavailable, JGarbage }

\* close errors of an auth pipe: none (EOF) and a timeout
eTimeout == GError("G_IO_ERROR_TIMED_OUT", "timeout")
CloseErrors == { NoError, eTimeout }

\* results of an ssh transport: its problem (NULL is success) and its result
\* for the password method
NoProblem == ""
TransportResults == { << NoProblem, "" >>, << "authentication-failed", "denied" >> }

(* ------------------------------------------------------------------ *)
(* State                                                               *)
(* ------------------------------------------------------------------ *)

VARIABLES
    login_loopback,          \* self->login_loopback
    cockpit_conf,            \* [type] action keys of the configuration
    max_startups,            \* self->max_startups
    max_startups_begin,      \* self->max_startups_begin
    max_startups_rate,       \* self->max_startups_rate
    startups,                \* self->startups
    nonce_seed,              \* self->nonce_seed
    gssapi_not_avail,        \* the static flag
    timeout_tag,             \* self->timeout_tag: the process idle timer is armed
    sources,                 \* the armed timeout sources of the main loop: those
                             \* of on_process_timeout and, by cookie, those of
                             \* on_authenticated_timeout
    authenticated,           \* self->authenticated: cookie -> CockpitAuthenticated
    authentication_pending,  \* self->authentication_pending: the ids in the table
    auth_data,               \* the live AuthData, by id
    results,                 \* the live GSimpleAsyncResults, by attempt number
    begun,                   \* login_async calls so far
    issued,                  \* every nonce cockpit_auth_nonce returned, in order
    procs,                   \* the helper processes: pid -> what became of it,
                             \* and fd -> "closed" for the fds the manager closed
    poisoned,                \* csrf tokens of the creds that were poisoned
    removed,                 \* cookies of the sessions that were removed
    sig_idling,              \* emissions of the manager's "idling" signal
    last                     \* what the last operation showed its caller

vars == << login_loopback, cockpit_conf, max_startups, max_startups_begin,
           max_startups_rate, startups, nonce_seed, gssapi_not_avail,
           timeout_tag, sources, authenticated, authentication_pending, auth_data,
           results, begun, issued, procs, poisoned, removed, sig_idling, last >>

config_vars == << login_loopback, cockpit_conf, max_startups,
                  max_startups_begin, max_startups_rate >>

NoSessions == [c \in {} |-> NoCreds]

\* g_timeout_add_seconds: one more armed source among n
g_timeout_add_seconds(n) == n + 1

\* "if (tag) g_source_remove (tag)": the source of a set tag is removed
g_source_remove(tag, n) == IF tag THEN n - 1 ELSE n

\* a source whose handler returned TRUE stays armed
source_repeats(n) == n

\* a source is removed when its handler has returned FALSE
source_fired(n) == n - 1

\* the armed sources of the session with the cookie
session_sources(src, cookie) ==
    IF cookie \in DOMAIN src.session THEN src.session[cookie] ELSE 0

\* cockpit_auth_init and cockpit_auth_new
Init(deployments) ==
    /\ \E d \in deployments :
        /\ login_loopback = d.loopback
        /\ cockpit_conf = d.conf
        /\ max_startups = cockpit_auth_new(d.max_startups).max_startups
        /\ max_startups_begin = cockpit_auth_new(d.max_startups).max_startups_begin
        /\ max_startups_rate = cockpit_auth_new(d.max_startups).max_startups_rate
    /\ startups = 0
    /\ nonce_seed = 0
    /\ gssapi_not_avail = FALSE
    /\ timeout_tag = TRUE
    /\ sources = [process |-> g_timeout_add_seconds(0), session |-> NoSessions]
    /\ authenticated = NoSessions
    /\ authentication_pending = {}
    /\ auth_data = NoSessions
    /\ results = NoSessions
    /\ begun = 0
    /\ issued = <<>>
    /\ procs = NoSessions
    /\ poisoned = {}
    /\ removed = {}
    /\ sig_idling = 0
    /\ last = NoObs

(* ------------------------------------------------------------------ *)
(* login_async                                                         *)
(* ------------------------------------------------------------------ *)

\* auth_data_add_pending_result: refused when a result is attached already
auth_data_add_pending_result(ad, t) ==
    IF ad.pending_result # 0 THEN ad ELSE [ad EXCEPT !.pending_result = t]

\* the input of cockpit_auth_spawn_login_async, whatever the static flag says
spawn_login_input_flag_ignored(parsed, not_avail, type) ==
    IF parsed.null /\ type = sNegotiateLc THEN Str(<<>>) ELSE parsed

\* the input of cockpit_auth_spawn_login_async: what the Authorization
\* header holds, or the empty payload for negotiate without one while
\* gssapi is not known to be unavailable
spawn_login_input(parsed, not_avail, type) ==
    IF parsed.null /\ ~not_avail /\ type = sNegotiateLc THEN Str(<<>>) ELSE parsed

\* cockpit_auth_spawn_login_async for attempt t; spawn_ok is whether
\* g_spawn_async_with_pipes succeeds.  The child of attempt t has pid t.
cockpit_auth_spawn_login_async(t, application, type, decode_header, headers, spawn_ok, obs) ==
    LET input == spawn_login_input(
                     cockpit_auth_parse_authorization(headers, decode_header),
                     gssapi_not_avail, type)
    IN  IF ~input.null /\ ~application.null
        THEN
            LET n == cockpit_auth_nonce(nonce_seed)
                ad == [NewAuthData("spawn") EXCEPT
                          !.auth_type = type,
                          !.authorization = input.s,
                          !.application = application.s]
                started == [ad EXCEPT
                               !.process_pid = t,
                               !.process_in = 2 * t + 10,
                               !.process_out = 2 * t + 11,
                               !.h_message = TRUE,
                               !.h_close = TRUE]
            IN  /\ nonce_seed' = n.seed
                /\ issued' = Append(issued, n.nonce)
                /\ authentication_pending' = authentication_pending
                /\ IF spawn_ok
                   THEN /\ auth_data' = (n.nonce :> auth_data_add_pending_result(started, t))
                                            @@ auth_data
                        /\ results' = (t :> NewResult("spawn", NoError, Str(n.nonce), FALSE))
                                            @@ results
                        /\ procs' = (t :> "running") @@ procs
                        /\ last' = [obs EXCEPT !.to = Str(n.nonce), !.sent = input,
                                               !.spawned = TRUE]
                   ELSE /\ auth_data' = (n.nonce :> ad) @@ auth_data
                        /\ results' = (t :> NewResult("spawn",
                                          GError("COCKPIT_ERROR_FAILED", "Internal error starting"),
                                          Str(n.nonce), TRUE)) @@ results
                        /\ procs' = procs
                        /\ last' = [obs EXCEPT !.error =
                                      GError("COCKPIT_ERROR_FAILED", "Internal error starting")]
        ELSE
            /\ results' = (t :> NewResult("spawn",
                              GError("COCKPIT_ERROR_AUTHENTICATION_FAILED", "Authentication required"),
                              NoStr, TRUE)) @@ results
            /\ last' = [obs EXCEPT !.error =
                          GError("COCKPIT_ERROR_AUTHENTICATION_FAILED", "Authentication required")]
            /\ UNCHANGED << nonce_seed, issued, authentication_pending, auth_data, procs >>

\* cockpit_auth_remote_login_async that takes the credential of any type
cockpit_auth_remote_login_async_any_type(t, application, type, headers, obs) ==
    LET input == cockpit_auth_parse_authorization(headers, TRUE)
        pw == parse_basic_auth_password(input.s)
    IN  IF ~application.null /\ ~input.null
           /\ ~pw.password.null /\ ~pw.user.null
        THEN
            LET csrf == cockpit_auth_nonce(nonce_seed)
                n == cockpit_auth_nonce(csrf.seed)
                creds == cockpit_creds_new(pw.user.s, application.s, pw.password, csrf.nonce)
                ad == [NewAuthData("remote") EXCEPT
                          !.creds = creds,
                          !.transport = "open",
                          !.h_message = TRUE]
            IN  /\ nonce_seed' = n.seed
                /\ issued' = issued \o << csrf.nonce, n.nonce >>
                /\ auth_data' = (n.nonce :> auth_data_add_pending_result(ad, t)) @@ auth_data
                /\ results' = (t :> NewResult("remote", NoError, Str(n.nonce), FALSE)) @@ results
                /\ last' = obs
                /\ UNCHANGED << authentication_pending, procs >>
        ELSE
            /\ results' = (t :> NewResult("remote",
                              GError("COCKPIT_ERROR_AUTHENTICATION_FAILED",
                                     "Basic authentication required"),
                              NoStr, TRUE)) @@ results
            /\ last' = [obs EXCEPT !.error =
                          GError("COCKPIT_ERROR_AUTHENTICATION_FAILED",
                                 "Basic authentication required")]
            /\ UNCHANGED << nonce_seed, issued, authentication_pending, auth_data, procs >>

\* cockpit_auth_remote_login_async for attempt t
cockpit_auth_remote_login_async(t, application, type, headers, obs) ==
    LET input == cockpit_auth_parse_authorization(headers, TRUE)
        pw == parse_basic_auth_password(input.s)
    IN  IF ~application.null /\ ~input.null /\ type = sBasicLc
           /\ ~pw.password.null /\ ~pw.user.null
        THEN
            LET csrf == cockpit_auth_nonce(nonce_seed)
                n == cockpit_auth_nonce(csrf.seed)
                creds == cockpit_creds_new(pw.user.s, application.s, pw.password, csrf.nonce)
                ad == [NewAuthData("remote") EXCEPT
                          !.creds = creds,
                          !.transport = "open",
                          !.h_message = TRUE]
            IN  /\ nonce_seed' = n.seed
                /\ issued' = issued \o << csrf.nonce, n.nonce >>
                /\ auth_data' = (n.nonce :> auth_data_add_pending_result(ad, t)) @@ auth_data
                /\ results' = (t :> NewResult("remote", NoError, Str(n.nonce), FALSE)) @@ results
                /\ last' = obs
                /\ UNCHANGED << authentication_pending, procs >>
        ELSE
            /\ results' = (t :> NewResult("remote",
                              GError("COCKPIT_ERROR_AUTHENTICATION_FAILED",
                                     "Basic authentication required"),
                              NoStr, TRUE)) @@ results
            /\ last' = [obs EXCEPT !.error =
                          GError("COCKPIT_ERROR_AUTHENTICATION_FAILED",
                                 "Basic authentication required")]
            /\ UNCHANGED << nonce_seed, issued, authentication_pending, auth_data, procs >>

\* cockpit_auth_none_login_async for attempt t
cockpit_auth_none_login_async(t, obs) ==
    /\ results' = (t :> NewResult("none",
                      GError("COCKPIT_ERROR_AUTHENTICATION_FAILED", "Authentication disabled"),
                      NoStr, TRUE)) @@ results
    /\ last' = [obs EXCEPT !.error =
                  GError("COCKPIT_ERROR_AUTHENTICATION_FAILED", "Authentication disabled")]
    /\ UNCHANGED << nonce_seed, issued, authentication_pending, auth_data, procs >>

\* the lookup of cockpit_auth_resume_async: the id of the pending dialogue
\* the header names, NULL when the header does not split into three pieces
\* or the second is no key of the table
resume_lookup(headers, pending) ==
    IF ~HasHeader(headers, "Authorization") THEN NoStr
    ELSE LET parts == g_strsplit3(headers["Authorization"])
         IN  IF Len(parts) = 3 /\ parts[2] \in pending THEN Str(parts[2]) ELSE NoStr

\* the payload check of cockpit_auth_resume_async: the decoded third piece,
\* NULL when g_base64_decode_inplace fails or gives no byte
resume_payload(headers) ==
    LET dec == g_base64_decode_inplace(g_strsplit3(headers["Authorization"])[3])
    IN  IF dec.null \/ Len(dec.s) < 1 THEN NoStr ELSE dec

\* cockpit_auth_resume_async that looks at the payload before it takes the
\* dialogue out of the table
cockpit_auth_resume_async_validate_first(t, headers, obs) ==
    LET found == resume_lookup(headers, authentication_pending)
    IN  IF found.null
        THEN
            /\ results' = (t :> NewResult("none",
                              GError("COCKPIT_ERROR_AUTHENTICATION_FAILED", "Invalid resume token"),
                              NoStr, TRUE)) @@ results
            /\ last' = [obs EXCEPT !.error =
                          GError("COCKPIT_ERROR_AUTHENTICATION_FAILED", "Invalid resume token")]
            /\ UNCHANGED << nonce_seed, issued, authentication_pending, auth_data, procs >>
        ELSE
            LET id == found.s
                \* the purge handler is disconnected; the result takes a
                \* reference and the table drops its own
                ad == [auth_data[id] EXCEPT !.h_purge = FALSE, !.awaiting = FALSE]
                input == resume_payload(headers)
            IN  /\ authentication_pending' =
                      IF input.null THEN authentication_pending
                      ELSE authentication_pending \ {id}
                /\ IF input.null
                   THEN /\ results' = (t :> NewResult(ad.tag,
                                          GError("COCKPIT_ERROR_AUTHENTICATION_FAILED",
                                                 "Invalid resume token"),
                                          NoStr, TRUE)) @@ results
                        /\ auth_data' = auth_data
                        /\ last' = [obs EXCEPT !.error =
                                      GError("COCKPIT_ERROR_AUTHENTICATION_FAILED",
                                             "Invalid resume token")]
                   ELSE /\ results' = (t :> NewResult(ad.tag, NoError, Str(id), FALSE))
                                            @@ results
                        /\ auth_data' = [auth_data EXCEPT
                                            ![id] = auth_data_add_pending_result(ad, t)]
                        /\ last' = [obs EXCEPT !.to = Str(id), !.sent = input]
                /\ UNCHANGED << nonce_seed, issued, procs >>

\* cockpit_auth_resume_async that leaves the id in the table
cockpit_auth_resume_async_id_kept(t, headers, obs) ==
    LET found == resume_lookup(headers, authentication_pending)
    IN  IF found.null
        THEN
            /\ results' = (t :> NewResult("none",
                              GError("COCKPIT_ERROR_AUTHENTICATION_FAILED", "Invalid resume token"),
                              NoStr, TRUE)) @@ results
            /\ last' = [obs EXCEPT !.error =
                          GError("COCKPIT_ERROR_AUTHENTICATION_FAILED", "Invalid resume token")]
            /\ UNCHANGED << nonce_seed, issued, authentication_pending, auth_data, procs >>
        ELSE
            LET id == found.s
                \* the purge handler is disconnected; the result takes a
                \* reference and the table drops its own
                ad == [auth_data[id] EXCEPT !.h_purge = FALSE, !.awaiting = FALSE]
                input == resume_payload(headers)
            IN  /\ authentication_pending' = authentication_pending
                /\ IF input.null
                   THEN /\ results' = (t :> NewResult(ad.tag,
                                          GError("COCKPIT_ERROR_AUTHENTICATION_FAILED",
                                                 "Invalid resume token"),
                                          Str(id), TRUE)) @@ results
                        /\ auth_data' = [auth_data EXCEPT ![id] = ad]
                        /\ last' = [obs EXCEPT !.error =
                                      GError("COCKPIT_ERROR_AUTHENTICATION_FAILED",
                                             "Invalid resume token")]
                   ELSE /\ results' = (t :> NewResult(ad.tag, NoError, Str(id), FALSE))
                                            @@ results
                        /\ auth_data' = [auth_data EXCEPT
                                            ![id] = auth_data_add_pending_result(ad, t)]
                        /\ last' = [obs EXCEPT !.to = Str(id), !.sent = input]
                /\ UNCHANGED << nonce_seed, issued, procs >>

\* cockpit_auth_resume_async for attempt t
cockpit_auth_resume_async(t, headers, obs) ==
    LET found == resume_lookup(headers, authentication_pending)
    IN  IF found.null
        THEN
            /\ results' = (t :> NewResult("none",
                              GError("COCKPIT_ERROR_AUTHENTICATION_FAILED", "Invalid resume token"),
                              NoStr, TRUE)) @@ results
            /\ last' = [obs EXCEPT !.error =
                          GError("COCKPIT_ERROR_AUTHENTICATION_FAILED", "Invalid resume token")]
            /\ UNCHANGED << nonce_seed, issued, authentication_pending, auth_data, procs >>
        ELSE
            LET id == found.s
                \* the purge handler is disconnected; the result takes a
                \* reference and the table drops its own
                ad == [auth_data[id] EXCEPT !.h_purge = FALSE, !.awaiting = FALSE]
                input == resume_payload(headers)
            IN  /\ authentication_pending' = authentication_pending \ {id}
                /\ IF input.null
                   THEN /\ results' = (t :> NewResult(ad.tag,
                                          GError("COCKPIT_ERROR_AUTHENTICATION_FAILED",
                                                 "Invalid resume token"),
                                          Str(id), TRUE)) @@ results
                        /\ auth_data' = [auth_data EXCEPT ![id] = ad]
                        /\ last' = [obs EXCEPT !.error =
                                      GError("COCKPIT_ERROR_AUTHENTICATION_FAILED",
                                             "Invalid resume token")]
                   ELSE /\ results' = (t :> NewResult(ad.tag, NoError, Str(id), FALSE))
                                            @@ results
                        /\ auth_data' = [auth_data EXCEPT
                                            ![id] = auth_data_add_pending_result(ad, t)]
                        /\ last' = [obs EXCEPT !.to = Str(id), !.sent = input]
                /\ UNCHANGED << nonce_seed, issued, procs >>

\* cockpit_auth_choose_login_async for attempt t
cockpit_auth_choose_login_async(t, path, headers, spawn_ok) ==
    LET application == cockpit_auth_parse_application(path)
        parsed == cockpit_auth_parse_authorization_type(headers)
        type == IF parsed.null THEN sNegotiateLc ELSE parsed.s
        action == action_for_type(type, login_loopback, cockpit_conf)
        obs == [Asked("login_async", path, headers, "Authorization") EXCEPT
                   !.task = t, !.action = action]
    IN  IF action = ACTION_SPAWN_HEADER
        THEN cockpit_auth_spawn_login_async(t, application, type, FALSE, headers, spawn_ok, obs)
        ELSE IF action = ACTION_SPAWN_DECODE
        THEN cockpit_auth_spawn_login_async(t, application, type, TRUE, headers, spawn_ok, obs)
        ELSE IF action = ACTION_SSH
        THEN cockpit_auth_remote_login_async(t, application, type, headers, obs)
        ELSE IF action = ACTION_LOGIN_REPLY
        THEN cockpit_auth_resume_async(t, headers, obs)
        ELSE cockpit_auth_none_login_async(t, obs)

\* the result of a dropped request: g_simple_async_result_new_error gives it
\* no source tag
dropped_result ==
    NewResult("NULL", GError("COCKPIT_ERROR_FAILED", "Connection closed by host"),
              NoStr, TRUE)

\* startups++ of cockpit_auth_login_async
startups_increment(n) == n + 1

\* cockpit_auth_login_async: attempt t = begun + 1 with a request for path
\* carrying headers; r is the draw of can_start_auth.  A behaviour has at
\* most bound attempts.
cockpit_auth_login_async_upto(bound, path, headers, r, spawn_ok) ==
    LET t == begun + 1
        n == startups_increment(startups)
    IN  /\ begun < bound
        /\ begun' = t
        /\ startups' = n
        /\ IF can_start_auth(n, max_startups_begin, max_startups_rate, max_startups, r)
           THEN cockpit_auth_choose_login_async(t, path, headers, spawn_ok)
           ELSE /\ results' = (t :> dropped_result) @@ results
                /\ last' = [Asked("login_async", path, headers, "Authorization") EXCEPT
                               !.task = t, !.admitted = FALSE,
                               !.error = dropped_result.error]
                /\ UNCHANGED << nonce_seed, issued, authentication_pending, auth_data, procs >>
        /\ UNCHANGED << config_vars, gssapi_not_avail, timeout_tag, sources, authenticated,
                        poisoned, removed, sig_idling >>

\* cockpit_auth_login_async in the models of MaxBegins attempts
cockpit_auth_login_async(path, headers, r, spawn_ok) ==
    cockpit_auth_login_async_upto(MaxBegins, path, headers, r, spawn_ok)

(* ------------------------------------------------------------------ *)
(* AuthData: completion and release                                    *)
(* ------------------------------------------------------------------ *)

\* a function without the key k
Without(f, k) == [x \in DOMAIN f \ {k} |-> f[x]]

\* auth_data_complete_result that leaves the completed result attached
auth_data_complete_result_kept(id, error, ads, rs) ==
    LET ad == ads[id]
    IN  IF ad.pending_result # 0
        THEN [auth_data |-> ads,
              results |-> [rs EXCEPT ![ad.pending_result] =
                              [@ EXCEPT !.error = IF error # NoError THEN error ELSE @,
                                        !.complete = TRUE]]]
        ELSE [auth_data |-> ads, results |-> rs]

\* auth_data_complete_result on the dialogue id: the attached result gets
\* the error, if any, and is completed in idle; without an attached result
\* the error or result is dropped with a log message
auth_data_complete_result(id, error, ads, rs) ==
    LET ad == ads[id]
    IN  IF ad.pending_result # 0
        THEN [auth_data |-> [ads EXCEPT ![id].pending_result = 0],
              results |-> [rs EXCEPT ![ad.pending_result] =
                              [@ EXCEPT !.error = IF error # NoError THEN error ELSE @,
                                        !.complete = TRUE]]]
        ELSE [auth_data |-> ads, results |-> rs]

\* close (fd) of spawn_login_data_free: fds that are still the dialogue's
close_fd(fd, ps) == IF fd # -1 THEN (fd :> "closed") @@ ps ELSE ps

\* spawn_login_data_free that closes the fds and leaves the child alone
destroy_user_data_child_kept(ad, ps) ==
    IF ad.tag # "spawn" THEN ps
    ELSE close_fd(ad.process_out, close_fd(ad.process_in, ps))

\* spawn_login_data_free / remote_login_data_free: the fds that are still
\* the dialogue's are closed, and a child that is still the dialogue's is
\* sent SIGTERM
destroy_user_data(ad, ps) ==
    IF ad.tag # "spawn" THEN ps
    ELSE LET closed == close_fd(ad.process_out, close_fd(ad.process_in, ps))
         IN  IF ad.process_pid # 0
             THEN [closed EXCEPT ![ad.process_pid] = "killed"]
             ELSE closed

\* auth_data_unref, and auth_data_free at zero: the free is refused while a
\* result is attached
auth_data_unref(id, ads, ps) ==
    LET ad == ads[id]
    IN  IF ad.refs - 1 # 0
        THEN [auth_data |-> [ads EXCEPT ![id].refs = @ - 1], procs |-> ps]
        ELSE IF ad.pending_result # 0
        THEN [auth_data |-> [ads EXCEPT ![id].refs = 0], procs |-> ps]
        ELSE [auth_data |-> Without(ads, id), procs |-> destroy_user_data(ad, ps)]

(* ------------------------------------------------------------------ *)
(* Events of the auth pipe and the ssh transport                       *)
(* ------------------------------------------------------------------ *)

\* what auth_data_complete_result writes to the log: nothing when it
\* completes a result
dropped_message(pending_result, error) ==
    IF pending_result # 0 THEN ""
    ELSE IF error # NoError THEN "Dropped authentication error"
    ELSE "Dropped authentication result"

\* on_auth_pipe_result: the helper's message reply arrives on the pipe of
\* dialogue id; it is refused while response_data is set
on_auth_pipe_result(id, reply) ==
    /\ id \in DOMAIN auth_data
    /\ auth_data[id].pipe_open
    /\ auth_data[id].h_message
    /\ IF auth_data[id].response_data # NoData
       THEN UNCHANGED << auth_data, results >>
       ELSE LET stored == [auth_data EXCEPT ![id].response_data = reply]
                done == auth_data_complete_result(id, NoError, stored, results)
            IN  /\ auth_data' = done.auth_data
                /\ results' = done.results
    /\ last' = [Obs("on_auth_pipe_result") EXCEPT
                   !.to = Str(id), !.message = reply,
                   !.task = auth_data[id].pending_result,
                   !.logged = IF auth_data[id].response_data # NoData
                              THEN "assertion 'ad->response_data == NULL' failed"
                              ELSE dropped_message(auth_data[id].pending_result, NoError)]
    /\ UNCHANGED << config_vars, startups, nonce_seed, gssapi_not_avail, timeout_tag, sources,
                    authenticated, authentication_pending, begun, issued, procs,
                    poisoned, removed, sig_idling >>

\* on_spawn_auth_pipe_close that reports errors only
on_spawn_auth_pipe_close_errors_only(id, error, ads, rs) ==
    IF error # NoError
    THEN auth_data_complete_result(id, error, ads, rs)
    ELSE [auth_data |-> ads, results |-> rs]

\* on_spawn_auth_pipe_close that resolves a waiting result without the error
on_spawn_auth_pipe_close_error_dropped(id, error, ads, rs) ==
    IF ads[id].pending_result # 0
    THEN auth_data_complete_result(id, NoError, ads, rs)
    ELSE [auth_data |-> ads, results |-> rs]

\* on_spawn_auth_pipe_close: only errors are reported, unless a result waits
on_spawn_auth_pipe_close(id, error, ads, rs) ==
    IF error # NoError \/ ads[id].pending_result # 0
    THEN auth_data_complete_result(id, error, ads, rs)
    ELSE [auth_data |-> ads, results |-> rs]

\* purge_auth_id that leaves the table as it is
purge_auth_id_kept(id, pending) == pending

\* purge_auth_id: g_hash_table_remove (self->authentication_pending, id)
purge_auth_id(id, pending) == pending \ {id}

\* the pipe of dialogue id emits "close" with error (EOF, a timeout, an I/O
\* error): on_spawn_auth_pipe_close when connected, then purge_auth_id when
\* connected, which drops the table's reference
auth_pipe_close(id, error) ==
    /\ id \in DOMAIN auth_data
    /\ auth_data[id].pipe_open
    /\ auth_data[id].h_message
    /\ LET closed == [auth_data EXCEPT ![id].pipe_open = FALSE]
           c == IF auth_data[id].h_close
                THEN on_spawn_auth_pipe_close(id, error, closed, results)
                ELSE [auth_data |-> closed, results |-> results]
           purge == auth_data[id].h_purge /\ id \in authentication_pending
           u == IF purge
                THEN auth_data_unref(id, c.auth_data, procs)
                ELSE [auth_data |-> c.auth_data, procs |-> procs]
       IN  /\ authentication_pending' =
                 IF auth_data[id].h_purge THEN purge_auth_id(id, authentication_pending)
                 ELSE authentication_pending
           /\ auth_data' = u.auth_data
           /\ procs' = u.procs
           /\ results' = c.results
    /\ last' = [Obs("auth_pipe_close") EXCEPT
                   !.to = Str(id), !.error = error,
                   !.task = auth_data[id].pending_result,
                   !.logged = IF auth_data[id].h_close
                                 /\ (error # NoError \/ auth_data[id].pending_result # 0)
                              THEN dropped_message(auth_data[id].pending_result, error)
                              ELSE ""]
    /\ UNCHANGED << config_vars, startups, nonce_seed, gssapi_not_avail, timeout_tag, sources,
                    authenticated, begun, issued, poisoned, removed, sig_idling >>

\* the error on_remote_login_done makes of the transport's problem
remote_login_error(problem, pw_result) ==
    IF problem = NoProblem THEN NoError
    ELSE IF problem = "authentication-failed"
    THEN IF pw_result = "" \/ pw_result = "no-server-support"
         THEN GError("COCKPIT_ERROR_AUTHENTICATION_FAILED",
                     "Authentication failed: authentication-not-supported")
         ELSE GError("COCKPIT_ERROR_AUTHENTICATION_FAILED", "Authentication failed")
    ELSE IF problem = "terminated"
    THEN GError("COCKPIT_ERROR_AUTHENTICATION_FAILED", "Authentication failed: terminated")
    ELSE GError("COCKPIT_ERROR_FAILED", "Couldn't connect or authenticate")

\* on_remote_login_done: the ssh transport of dialogue id emits "result",
\* once; pw_result is its result for the password method ("" for none)
on_remote_login_done(id, problem, pw_result) ==
    /\ id \in DOMAIN auth_data
    /\ auth_data[id].tag = "remote"
    /\ auth_data[id].transport = "open"
    /\ ~auth_data[id].has_transport_result
    /\ LET marked == [auth_data EXCEPT ![id].has_transport_result = TRUE,
                                       ![id].problem = problem]
           done == auth_data_complete_result(id, remote_login_error(problem, pw_result),
                                             marked, results)
       IN  /\ auth_data' = done.auth_data
           /\ results' = done.results
    /\ last' = Obs("event")
    /\ UNCHANGED << config_vars, startups, nonce_seed, gssapi_not_avail, timeout_tag, sources,
                    authenticated, authentication_pending, begun, issued, procs,
                    poisoned, removed, sig_idling >>

(* ------------------------------------------------------------------ *)
(* login_finish                                                        *)
(* ------------------------------------------------------------------ *)

\* build_gssapi_output_header: the WWW-Authenticate value made of the
\* reply's gssapi-output, NULL when the header is left alone
build_gssapi_output_header(response_data) ==
    IF response_data.kind # "object" THEN NoStr
    ELSE LET output == cockpit_json_get_string(response_data.o, "gssapi-output")
         IN  IF ~output.ok \/ output.null THEN NoStr
             ELSE LET data == cockpit_hex_decode(output.v)
                  IN  IF data.null THEN NoStr
                      ELSE IF Len(data.s) > 0
                      THEN Str(sNegotiate \o sSpace \o g_base64_encode(data.s))
                      ELSE Str(sNegotiate)

\* create_creds_for_spawn_authenticated: the password comes from the held
\* Authorization bytes, for type basic only; the csrf token is a new nonce
create_creds_for_spawn_authenticated(user, sl, csrf_token) ==
    cockpit_creds_new(user, sl.application,
                      IF sl.auth_type = sBasicLc
                      THEN parse_basic_auth_password(sl.authorization).password
                      ELSE NoStr,
                      csrf_token)

\* the outcome of a method's finish: creds or NULL, the error, the prompt
\* (prompt_data, NULL when there is none), the WWW-Authenticate header it
\* set (none yet), the static flag, the nonce counter and the nonces drawn
Outcome(creds, error, prompt, gss, seed) ==
    [creds |-> creds, error |-> error, prompt |-> prompt,
     gssapi_not_avail |-> gss, seed |-> seed,
     nonces |-> IF creds.null THEN <<>> ELSE << creds.csrf_token >>,
     www_authenticate |-> NoStr]

\* the test that sets gssapi_not_avail, never met
negotiate_unavailable_never(error_str, auth_type) == FALSE

\* the test that sets gssapi_not_avail, for any type
negotiate_unavailable_any_type(error_str, auth_type) ==
    error_str = "authentication-unavailable"

\* the test of parse_cockpit_spawn_results that sets gssapi_not_avail
negotiate_unavailable(error_str, auth_type) ==
    error_str = "authentication-unavailable" /\ auth_type = sNegotiateLc

\* parse_cockpit_spawn_results that reports permission-denied as a failure
parse_cockpit_spawn_results_denied_as_failed(sl, response_data, gss, seed) ==
    LET o == response_data.o
        error_str == cockpit_json_get_string(o, "error")
        message == cockpit_json_get_string(o, "message")
        prompt == cockpit_json_get_string(o, "prompt")
        user == cockpit_json_get_string(o, "user")
        fail(code, text) ==
            Outcome(NoCreds, GError(code, text), NoStr, gss, seed)
    IN  IF response_data.kind = "not-utf8"
        THEN fail("G_IO_ERROR_INVALID_DATA", "Login user name is not UTF8 encoded")
        ELSE IF response_data.kind # "object"
        THEN fail("G_IO_ERROR_INVALID_DATA", "Authentication failed: no results")
        ELSE IF ~error_str.ok \/ ~message.ok \/ ~prompt.ok
        THEN fail("G_IO_ERROR_INVALID_DATA", "Authentication failed: invalid results")
        ELSE IF ~prompt.null
        THEN Outcome(NoCreds,
                     GError("COCKPIT_ERROR_AUTHENTICATION_FAILED", "X-Login-Reply needed"),
                     Str(prompt.v), gss, seed)
        ELSE IF error_str.null
        THEN IF ~user.ok \/ user.null
             THEN fail("G_IO_ERROR_INVALID_DATA", "Authentication failed: missing user")
             ELSE Outcome(create_creds_for_spawn_authenticated(
                              user.v, sl, cockpit_auth_nonce(seed).nonce),
                          NoError, NoStr, gss, cockpit_auth_nonce(seed).seed)
        ELSE IF negotiate_unavailable(error_str.v, sl.auth_type)
        THEN Outcome(NoCreds,
                     GError("COCKPIT_ERROR_AUTHENTICATION_FAILED",
                            "Negotiate authentication not available"),
                     NoStr, TRUE, seed)
        ELSE IF error_str.v = "authentication-failed"
                \/ error_str.v = "authentication-unavailable"
        THEN fail("COCKPIT_ERROR_AUTHENTICATION_FAILED", "Authentication failed")
        ELSE IF error_str.v = "permission-denied"
        THEN fail("COCKPIT_ERROR_FAILED", "Permission denied")
        ELSE fail("COCKPIT_ERROR_FAILED", "Authentication failed: error")

\* parse_cockpit_spawn_results that looks for the user before the error
parse_cockpit_spawn_results_user_first(sl, response_data, gss, seed) ==
    LET o == response_data.o
        error_str == cockpit_json_get_string(o, "error")
        message == cockpit_json_get_string(o, "message")
        prompt == cockpit_json_get_string(o, "prompt")
        user == cockpit_json_get_string(o, "user")
        fail(code, text) ==
            Outcome(NoCreds, GError(code, text), NoStr, gss, seed)
    IN  IF response_data.kind = "not-utf8"
        THEN fail("G_IO_ERROR_INVALID_DATA", "Login user name is not UTF8 encoded")
        ELSE IF response_data.kind # "object"
        THEN fail("G_IO_ERROR_INVALID_DATA", "Authentication failed: no results")
        ELSE IF ~error_str.ok \/ ~message.ok \/ ~prompt.ok
        THEN fail("G_IO_ERROR_INVALID_DATA", "Authentication failed: invalid results")
        ELSE IF ~prompt.null
        THEN Outcome(NoCreds,
                     GError("COCKPIT_ERROR_AUTHENTICATION_FAILED", "X-Login-Reply needed"),
                     Str(prompt.v), gss, seed)
        ELSE IF error_str.null \/ (user.ok /\ ~user.null)
        THEN IF ~user.ok \/ user.null
             THEN fail("G_IO_ERROR_INVALID_DATA", "Authentication failed: missing user")
             ELSE Outcome(create_creds_for_spawn_authenticated(
                              user.v, sl, cockpit_auth_nonce(seed).nonce),
                          NoError, NoStr, gss, cockpit_auth_nonce(seed).seed)
        ELSE IF negotiate_unavailable(error_str.v, sl.auth_type)
        THEN Outcome(NoCreds,
                     GError("COCKPIT_ERROR_AUTHENTICATION_FAILED",
                            "Negotiate authentication not available"),
                     NoStr, TRUE, seed)
        ELSE IF error_str.v = "authentication-failed"
                \/ error_str.v = "authentication-unavailable"
        THEN fail("COCKPIT_ERROR_AUTHENTICATION_FAILED", "Authentication failed")
        ELSE IF error_str.v = "permission-denied"
        THEN fail("COCKPIT_ERROR_PERMISSION_DENIED", "Permission denied")
        ELSE fail("COCKPIT_ERROR_FAILED", "Authentication failed: error")

\* parse_cockpit_spawn_results after build_gssapi_output_header (login_finish
\* always asks for prompt_data)
parse_cockpit_spawn_results(sl, response_data, gss, seed) ==
    LET o == response_data.o
        error_str == cockpit_json_get_string(o, "error")
        message == cockpit_json_get_string(o, "message")
        prompt == cockpit_json_get_string(o, "prompt")
        user == cockpit_json_get_string(o, "user")
        fail(code, text) ==
            Outcome(NoCreds, GError(code, text), NoStr, gss, seed)
    IN  IF response_data.kind = "not-utf8"
        THEN fail("G_IO_ERROR_INVALID_DATA", "Login user name is not UTF8 encoded")
        ELSE IF response_data.kind # "object"
        THEN fail("G_IO_ERROR_INVALID_DATA", "Authentication failed: no results")
        ELSE IF ~error_str.ok \/ ~message.ok \/ ~prompt.ok
        THEN fail("G_IO_ERROR_INVALID_DATA", "Authentication failed: invalid results")
        ELSE IF ~prompt.null
        THEN Outcome(NoCreds,
                     GError("COCKPIT_ERROR_AUTHENTICATION_FAILED", "X-Login-Reply needed"),
                     Str(prompt.v), gss, seed)
        ELSE IF error_str.null
        THEN IF ~user.ok \/ user.null
             THEN fail("G_IO_ERROR_INVALID_DATA", "Authentication failed: missing user")
             ELSE Outcome(create_creds_for_spawn_authenticated(
                              user.v, sl, cockpit_auth_nonce(seed).nonce),
                          NoError, NoStr, gss, cockpit_auth_nonce(seed).seed)
        ELSE IF negotiate_unavailable(error_str.v, sl.auth_type)
        THEN Outcome(NoCreds,
                     GError("COCKPIT_ERROR_AUTHENTICATION_FAILED",
                            "Negotiate authentication not available"),
                     NoStr, TRUE, seed)
        ELSE IF error_str.v = "authentication-failed"
                \/ error_str.v = "authentication-unavailable"
        THEN fail("COCKPIT_ERROR_AUTHENTICATION_FAILED", "Authentication failed")
        ELSE IF error_str.v = "permission-denied"
        THEN fail("COCKPIT_ERROR_PERMISSION_DENIED", "Permission denied")
        ELSE fail("COCKPIT_ERROR_FAILED", "Authentication failed: error")

\* parse_ssh_prompt_results
parse_ssh_prompt_results(response_data, gss, seed) ==
    LET prompt == cockpit_json_get_string(response_data.o, "prompt")
        fail(text) ==
            Outcome(NoCreds, GError("G_IO_ERROR_INVALID_DATA", text), NoStr, gss, seed)
    IN  IF response_data.kind = "not-utf8" THEN fail("Data is not UTF8 encoded")
        ELSE IF response_data.kind # "object" THEN fail("Authentication failed: no results")
        ELSE IF ~prompt.ok THEN fail("Authentication failed: invalid results")
        ELSE IF prompt.null THEN fail("Authentication failed: missing prompt")
        ELSE Outcome(NoCreds,
                     GError("COCKPIT_ERROR_AUTHENTICATION_FAILED", "X-Login-Reply needed"),
                     Str(prompt.v), gss, seed)

\* the header of cockpit_auth_prepare_login_reply with the prompt as it is
login_reply_header_plain(id, prompt) ==
    LOGIN_REPLY_HEADER \o sSpace \o id \o sSpace \o prompt

\* the header of cockpit_auth_prepare_login_reply
login_reply_header(id, prompt) ==
    LOGIN_REPLY_HEADER \o sSpace \o id \o sSpace \o g_base64_encode(prompt)

\* cockpit_auth_prepare_login_reply that stores the AuthData in the table
\* without auth_data_ref
cockpit_auth_prepare_login_reply_borrowed(ad) ==
    IF ad.pending_result # 0 THEN ad
    ELSE [ad EXCEPT !.h_purge = TRUE]

\* cockpit_auth_prepare_login_reply on the AuthData: refused while a result
\* is attached; else the table takes a reference and the purge handler is
\* connected to the pipe's "close"
cockpit_auth_prepare_login_reply(ad) ==
    IF ad.pending_result # 0 THEN ad
    ELSE [ad EXCEPT !.refs = @ + 1, !.h_purge = TRUE]

\* spawn_login_finished that leaves the pid and the fds with the dialogue
spawn_login_finished_fds_kept(id, ad, out) ==
    IF ~out.creds.null
    THEN [out |-> out, pending |-> FALSE, child |-> "transport", ad |-> ad]
    ELSE IF ~out.prompt.null
    THEN [out |-> [out EXCEPT !.www_authenticate =
                      IF ad.pending_result # 0 THEN @
                      ELSE Str(login_reply_header(id, out.prompt.s))],
          pending |-> ad.pending_result = 0, child |-> "",
          ad |-> [cockpit_auth_prepare_login_reply(ad) EXCEPT
                     !.awaiting = @ \/ ad.pending_result = 0]]
    ELSE IF ad.process_pid > 0
    THEN [out |-> out, pending |-> FALSE, child |-> "killed",
          ad |-> [ad EXCEPT !.process_pid = 0]]
    ELSE [out |-> out, pending |-> FALSE, child |-> "", ad |-> ad]

\* what cockpit_auth_spawn_login_finish does with the outcome out of
\* parse_cockpit_spawn_results: the outcome, whether the dialogue goes to the
\* pending table, the AuthData as it leaves it, and what becomes of the child
spawn_login_finished(id, ad, out) ==
    IF ~out.creds.null
    THEN \* the child and its fds go to a new pipe transport
         [out |-> out, pending |-> FALSE, child |-> "transport",
          ad |-> [ad EXCEPT !.process_pid = 0, !.process_in = -1, !.process_out = -1]]
    ELSE IF ~out.prompt.null
    THEN [out |-> [out EXCEPT !.www_authenticate =
                      IF ad.pending_result # 0 THEN @
                      ELSE Str(login_reply_header(id, out.prompt.s))],
          pending |-> ad.pending_result = 0, child |-> "",
          ad |-> [cockpit_auth_prepare_login_reply(ad) EXCEPT
                     !.awaiting = @ \/ ad.pending_result = 0]]
    ELSE IF ad.process_pid > 0
    THEN [out |-> out, pending |-> FALSE, child |-> "killed",
          ad |-> [ad EXCEPT !.process_pid = 0]]
    ELSE [out |-> out, pending |-> FALSE, child |-> "", ad |-> ad]

\* cockpit_auth_spawn_login_finish after the error check; response_data is
\* released at the end
cockpit_auth_spawn_login_finish(id, ad, gss, seed) ==
    spawn_login_finished(
        id, [ad EXCEPT !.response_data = NoData],
        [parse_cockpit_spawn_results(ad, ad.response_data, gss, seed) EXCEPT
            !.www_authenticate = build_gssapi_output_header(ad.response_data)])

\* what cockpit_auth_remote_login_finish does with the outcome out of
\* parse_ssh_prompt_results
remote_login_finished(id, ad, out) ==
    IF out.prompt.null
    THEN \* cockpit_transport_close (transport, "internal-error")
         [out |-> out, pending |-> FALSE, child |-> "",
          ad |-> [ad EXCEPT !.transport = "closed"]]
    ELSE [out |-> [out EXCEPT !.www_authenticate =
                      IF ad.pending_result # 0 THEN @
                      ELSE Str(login_reply_header(id, out.prompt.s))],
          pending |-> ad.pending_result = 0, child |-> "",
          ad |-> [cockpit_auth_prepare_login_reply(ad) EXCEPT
                     !.awaiting = @ \/ ad.pending_result = 0]]

\* cockpit_auth_remote_login_finish after the error check
cockpit_auth_remote_login_finish(id, ad, gss, seed) ==
    IF ad.has_transport_result
    THEN [out |-> [Outcome(ad.creds, NoError, NoStr, gss, seed) EXCEPT !.nonces = <<>>],
          pending |-> FALSE, child |-> "",
          ad |-> [ad EXCEPT !.response_data = NoData]]
    ELSE remote_login_finished(id, [ad EXCEPT !.response_data = NoData],
                               parse_ssh_prompt_results(ad.response_data, gss, seed))

\* g_simple_async_result_propagate_error at the head of a method's finish
g_simple_async_result_propagate_error(result) == result.error # NoError

\* cockpit_auth_choose_login_finish: the finish of the method whose tag the
\* result carries (a result without a tag passes the first check); each
\* method's finish returns NULL with the result's error when it has one
cockpit_auth_choose_login_finish(result, ads, gss, seed) ==
    LET propagated == [out |-> Outcome(NoCreds, result.error, NoStr, gss, seed),
                       pending |-> FALSE, child |-> "", auth_data |-> ads]
        finish(f) == [out |-> f.out, pending |-> f.pending, child |-> f.child,
                      auth_data |-> [ads EXCEPT ![result.ad.s] = f.ad]]
    IN  IF g_simple_async_result_is_valid(result, "spawn")
        THEN IF g_simple_async_result_propagate_error(result) THEN propagated
             ELSE finish(cockpit_auth_spawn_login_finish(
                             result.ad.s, ads[result.ad.s], gss, seed))
        ELSE IF g_simple_async_result_is_valid(result, "remote")
        THEN IF g_simple_async_result_propagate_error(result) THEN propagated
             ELSE finish(cockpit_auth_remote_login_finish(
                             result.ad.s, ads[result.ad.s], gss, seed))
        ELSE propagated

\* on_web_service_idling that arms its timers without removing the ones
\* that are armed
on_web_service_idling_sources_kept(cookie, session, process_tag, src) ==
    [process |-> g_timeout_add_seconds(src.process),
     session |-> (cookie :> g_timeout_add_seconds(session_sources(src, cookie)))
                    @@ src.session]

\* the sources on_web_service_idling leaves armed: the source of the
\* session's tag, if set, is removed and a new one added, and so for the
\* tag of the manager
on_web_service_idling_sources(cookie, session, process_tag, src) ==
    [process |-> g_timeout_add_seconds(g_source_remove(process_tag, src.process)),
     session |-> (cookie :> g_timeout_add_seconds(
                                g_source_remove(session.timeout_tag,
                                                session_sources(src, cookie))))
                    @@ src.session]

\* the session of cockpit_auth_login_finish: the web service is new and
\* idle, both handlers are connected, and the first run of
\* on_web_service_idling has armed the idle timer
NewAuthenticated(creds) ==
    [creds |-> creds, service |-> TRUE, idling |-> TRUE, timeout_tag |-> TRUE,
     idling_sig |-> TRUE, destroy_sig |-> TRUE]

\* the Set-Cookie header of cockpit_auth_login_finish
set_cookie_header(application, cookie, force_secure) ==
    application \o sEquals \o g_base64_encode(cookie) \o sPathAttr
        \o (IF force_secure THEN sSecure ELSE <<>>) \o sHttpOnly

\* self->startups-- of cockpit_auth_login_finish, done only for a login
\* that gave creds
startups_decrement_on_success(n, creds) == IF creds.null THEN n ELSE n - 1

\* self->startups-- of cockpit_auth_login_finish
startups_decrement(n, creds) == n - 1

\* g_hash_table_insert (self->authenticated, cookie, authenticated), left out
authenticated_not_inserted(table, cookie, session) == table

\* g_hash_table_insert (self->authenticated, cookie, authenticated)
authenticated_insert(table, cookie, session) == (cookie :> session) @@ table

\* the early return of cockpit_auth_login_finish, not taken with a prompt
login_finish_without_creds_or_prompt(out) == out.creds.null /\ out.prompt.null

\* if (creds == NULL) return prompt_data
login_finish_without_creds(out) == out.creds.null

\* cockpit_auth_login_finish after cockpit_auth_choose_login_finish gave f
\* for the result of attempt t; the result is released when it returns, and
\* with it the reference it holds on its AuthData
login_finished(t, insecure, result, f) ==
    LET creds == f.out.creds
        n == cockpit_auth_nonce(f.out.seed)
        cookie == sCookiePrefix \o n.nonce
        p1 == IF f.child = "" THEN procs
              ELSE [procs EXCEPT ![auth_data[result.ad.s].process_pid] = f.child]
        u == IF result.ad.null
             THEN [auth_data |-> f.auth_data, procs |-> p1]
             ELSE auth_data_unref(result.ad.s, f.auth_data, p1)
        obs == [Obs("login_finish") EXCEPT
                   !.task = t, !.error = f.out.error, !.creds = creds,
                   !.prompt = f.out.prompt,
                   !.www_authenticate = f.out.www_authenticate]
    IN  /\ startups' = startups_decrement(startups, creds)
        /\ gssapi_not_avail' = f.out.gssapi_not_avail
        /\ authentication_pending' =
              IF f.pending THEN authentication_pending \cup {result.ad.s}
              ELSE authentication_pending
        /\ auth_data' = u.auth_data
        /\ procs' = u.procs
        /\ results' = Without(results, t)
        /\ IF login_finish_without_creds(f.out)
           THEN /\ last' = obs
                /\ nonce_seed' = f.out.seed
                /\ issued' = issued \o f.out.nonces
                /\ UNCHANGED << authenticated, timeout_tag, sources >>
           ELSE /\ nonce_seed' = n.seed
                /\ issued' = issued \o f.out.nonces \o << n.nonce >>
                /\ authenticated' =
                      authenticated_insert(authenticated, cookie, NewAuthenticated(creds))
                /\ timeout_tag' = TRUE
                /\ sources' = on_web_service_idling_sources(
                                  cookie, [NewAuthenticated(creds) EXCEPT !.timeout_tag = FALSE],
                                  timeout_tag, sources)
                /\ last' = [obs EXCEPT
                               !.cookie = Str(cookie),
                               !.set_cookie = Str(set_cookie_header(
                                                  creds.application, cookie, ~insecure))]

\* cockpit_auth_login_finish for the completed result of attempt t, called
\* from the result's callback
cockpit_auth_login_finish(t, insecure) ==
    /\ t \in DOMAIN results
    /\ results[t].complete
    /\ login_finished(t, insecure, results[t],
                      cockpit_auth_choose_login_finish(results[t], auth_data,
                                                       gssapi_not_avail, nonce_seed))
    /\ UNCHANGED << config_vars, begun, poisoned, removed, sig_idling >>

(* ------------------------------------------------------------------ *)
(* Sessions                                                            *)
(* ------------------------------------------------------------------ *)

\* cockpit_creds_poison in cockpit_authenticated_free
cockpit_creds_poison(set, session) == set \cup { session.creds.csrf_token }

\* cockpit_authenticated_free without its g_source_remove
cockpit_authenticated_free_timer_kept(session) ==
    [timeout_tag |-> session.timeout_tag,
     creds |-> << "cockpit_creds_poison", "cockpit_creds_unref" >>,
     idling_sig |-> session.idling_sig /\ ~session.service,
     destroy_sig |-> session.destroy_sig /\ ~session.service,
     service |-> IF session.service THEN "disposed" ELSE "finalised"]

\* cockpit_authenticated_free, as what it leaves behind: the timer source
\* is removed when the tag is set, the creds are poisoned and then
\* released, and a service that is still there (the pointer is NULL after
\* on_web_service_gone, when the object is being finalised) has both
\* handlers disconnected and is disposed
cockpit_authenticated_free(session) ==
    [timeout_tag |-> session.timeout_tag /\ ~session.timeout_tag,
     creds |-> << "cockpit_creds_poison", "cockpit_creds_unref" >>,
     idling_sig |-> session.idling_sig /\ ~session.service,
     destroy_sig |-> session.destroy_sig /\ ~session.service,
     service |-> IF session.service THEN "disposed" ELSE "finalised"]

\* g_hash_table_remove (self->authenticated, cookie), which runs
\* cockpit_authenticated_free on the record; session is the record and src
\* are the sources as the caller left them
RemoveAuthenticated(op, cookie, session, src) ==
    /\ authenticated' = Without(authenticated, cookie)
    /\ sources' = [src EXCEPT !.session[cookie] = g_source_remove(session.timeout_tag, @)]
    /\ poisoned' = cockpit_creds_poison(poisoned, session)
    /\ removed' = removed \cup {cookie}
    /\ last' = [Obs(op) EXCEPT !.cookie = Str(cookie),
                               !.freed = cockpit_authenticated_free(session)]

\* on_web_service_idling: the session's timer is replaced by a new one and
\* so is the process idle timer
on_web_service_idling(session) == [session EXCEPT !.timeout_tag = TRUE]

\* the web service of the session emits "idling", which it does when its
\* last caller goes away
web_service_idling(cookie) ==
    /\ cookie \in DOMAIN authenticated
    /\ authenticated[cookie].idling_sig
    /\ ~authenticated[cookie].idling
    /\ authenticated' = [authenticated EXCEPT
                            ![cookie] = on_web_service_idling([@ EXCEPT !.idling = TRUE])]
    /\ timeout_tag' = TRUE
    /\ sources' = on_web_service_idling_sources(cookie, authenticated[cookie],
                                                timeout_tag, sources)
    /\ last' = [Obs("on_web_service_idling") EXCEPT
                   !.cookie = Str(cookie),
                   !.freed.timeout_tag = authenticated[cookie].timeout_tag]
    /\ UNCHANGED << config_vars, startups, nonce_seed, gssapi_not_avail,
                    authentication_pending, auth_data, results, begun, issued, procs,
                    poisoned, removed, sig_idling >>

\* a caller takes up the web service of the session: it stops idling
web_service_busy(cookie) ==
    /\ cookie \in DOMAIN authenticated
    /\ authenticated[cookie].idling
    /\ authenticated' = [authenticated EXCEPT ![cookie].idling = FALSE]
    /\ last' = Obs("event")
    /\ UNCHANGED << config_vars, startups, nonce_seed, gssapi_not_avail, timeout_tag, sources,
                    authentication_pending, auth_data, results, begun, issued, procs,
                    poisoned, removed, sig_idling >>

\* on_web_service_destroy: the web service emits "destroy"
on_web_service_destroy(cookie) ==
    /\ cookie \in DOMAIN authenticated
    /\ authenticated[cookie].destroy_sig
    /\ timeout_tag' = TRUE
    /\ RemoveAuthenticated("on_web_service_destroy", cookie,
                           on_web_service_idling(authenticated[cookie]),
                           on_web_service_idling_sources(cookie, authenticated[cookie],
                                                         timeout_tag, sources))
    /\ UNCHANGED << config_vars, startups, nonce_seed, gssapi_not_avail,
                    authentication_pending, auth_data, results, begun, issued, procs,
                    sig_idling >>

\* on_web_service_gone: the weak reference reports the web service finalised
on_web_service_gone(cookie) ==
    /\ cookie \in DOMAIN authenticated
    /\ RemoveAuthenticated("on_web_service_gone", cookie,
                           [authenticated[cookie] EXCEPT !.service = FALSE], sources)
    /\ UNCHANGED << config_vars, startups, nonce_seed, gssapi_not_avail, timeout_tag,
                    authentication_pending, auth_data, results, begun, issued, procs,
                    sig_idling >>

\* the test of on_authenticated_timeout, left out
timed_out_always(session) == TRUE

\* the test of on_authenticated_timeout, inverted
timed_out_inverted(session) == ~session.idling

\* the test of on_authenticated_timeout: cockpit_web_service_get_idling
timed_out(session) == session.idling

\* on_authenticated_timeout: the idle timer of the session fires
on_authenticated_timeout(cookie) ==
    /\ cookie \in DOMAIN authenticated
    /\ session_sources(sources, cookie) > 0
    /\ IF timed_out(authenticated[cookie])
       THEN RemoveAuthenticated("on_authenticated_timeout", cookie,
                                [authenticated[cookie] EXCEPT !.timeout_tag = FALSE],
                                [sources EXCEPT !.session[cookie] = source_fired(@)])
       ELSE /\ authenticated' = [authenticated EXCEPT ![cookie].timeout_tag = FALSE]
            /\ sources' = [sources EXCEPT !.session[cookie] = source_fired(@)]
            /\ last' = [Obs("on_authenticated_timeout") EXCEPT !.cookie = Str(cookie)]
            /\ UNCHANGED << poisoned, removed >>
    /\ UNCHANGED << config_vars, startups, nonce_seed, gssapi_not_avail, timeout_tag,
                    authentication_pending, auth_data, results, begun, issued, procs,
                    sig_idling >>

\* the test of on_process_timeout, without the table of pending dialogues
process_is_idle_without_pending(table, pending) == DOMAIN table = {}

\* the test of on_process_timeout: both tables are empty
process_is_idle(table, pending) == DOMAIN table = {} /\ pending = {}

\* on_process_timeout: the process idle timer fires; "idling" is emitted
\* when both tables are empty
on_process_timeout ==
    /\ sources.process > 0
    /\ timeout_tag' = FALSE
    /\ sources' = [sources EXCEPT !.process = source_fired(@)]
    /\ sig_idling' = IF process_is_idle(authenticated, authentication_pending)
                     THEN sig_idling + 1 ELSE sig_idling
    /\ last' = Obs("on_process_timeout")
    /\ UNCHANGED << config_vars, startups, nonce_seed, gssapi_not_avail, authenticated,
                    authentication_pending, auth_data, results, begun, issued, procs,
                    poisoned, removed >>

(* ------------------------------------------------------------------ *)
(* check_cookie                                                        *)
(* ------------------------------------------------------------------ *)

\* cockpit_web_server_parse_cookie for a Cookie header that holds one
\* cookie: its value when it has the name asked for
cockpit_web_server_parse_cookie(headers, name) ==
    IF ~HasHeader(headers, "Cookie") THEN NoStr
    ELSE IF g_str_has_prefix(headers["Cookie"], name \o sEquals)
    THEN Str(StrFrom(headers["Cookie"], Len(name) + 2))
    ELSE NoStr

\* base64_decode_string, for a text longer than one byte
base64_decode_string(enc) == g_base64_decode_inplace(enc).s

\* authenticated_for_headers: the cookie of the session the request names,
\* NULL when there is none
authenticated_for_headers(table, path, in_headers) ==
    LET application == cockpit_auth_parse_application(path)
        raw == cockpit_web_server_parse_cookie(in_headers, application.s)
        cookie == base64_decode_string(raw.s)
    IN  IF application.null \/ raw.null THEN NoStr
        ELSE IF g_str_has_prefix(cookie, sCookiePrefix) /\ cookie \in DOMAIN table
        THEN Str(cookie)
        ELSE NoStr

\* the cookies a request may present: those of the sessions there are and
\* were, and "v=1;k=00", each under the name of an application
sOldCookie == <<118,61,49,59,107,61,48,48>>
CookieHeaders ==
    { [Cookie |-> cockpit_auth_parse_application(p).s \o sEquals \o g_base64_encode(c)] :
        p \in Paths, c \in DOMAIN authenticated \cup removed \cup {sOldCookie} }

\* cockpit_auth_check_cookie: the web service of the session, named here by
\* the session's cookie
cockpit_auth_check_cookie(path, in_headers) ==
    /\ last' = [Asked("check_cookie", path, in_headers, "Cookie") EXCEPT
                   !.service = authenticated_for_headers(authenticated, path, in_headers)]
    /\ UNCHANGED << config_vars, startups, nonce_seed, gssapi_not_avail, timeout_tag, sources,
                    authenticated, authentication_pending, auth_data, results, begun,
                    issued, procs, poisoned, removed, sig_idling >>

(* ------------------------------------------------------------------ *)
(* The manager in its environment                                      *)
(* ------------------------------------------------------------------ *)

\* the Authorization headers a request may carry in the current state: a
\* client can name the id of any dialogue there is
RequestHeaders ==
    FirstHeaders \cup ResumeHeaders(DOMAIN auth_data \cup {sBogusId})

\* the draws of g_random_int_range (0, 100) that can_start_auth may read: it
\* draws only between the soft and the hard limit with a rate below 100
Draws ==
    IF max_startups # 0 /\ startups + 1 > max_startups_begin
       /\ startups + 1 <= max_startups /\ max_startups_rate # 100
    THEN 0..99 ELSE {0}

\* a request arrives: paths, requests and spawns are the paths and headers it
\* may carry and the outcomes g_spawn_async_with_pipes may have
LoginAsync(paths, requests, spawns) ==
    \E path \in paths, headers \in requests, r \in Draws, spawn_ok \in spawns :
        cockpit_auth_login_async(path, headers, r, spawn_ok)

LoginFinish ==
    \E t \in DOMAIN results, insecure \in BOOLEAN : cockpit_auth_login_finish(t, insecure)

PipeMessage(replies) ==
    \E id \in DOMAIN auth_data, reply \in replies : on_auth_pipe_result(id, reply)

PipeClose(errors) ==
    \E id \in DOMAIN auth_data, error \in errors : auth_pipe_close(id, error)

TransportResult ==
    \E id \in DOMAIN auth_data, res \in TransportResults :
        on_remote_login_done(id, res[1], res[2])

ServiceIdling == \E cookie \in DOMAIN authenticated : web_service_idling(cookie)

ServiceBusy == \E cookie \in DOMAIN authenticated : web_service_busy(cookie)

ServiceDestroy == \E cookie \in DOMAIN authenticated : on_web_service_destroy(cookie)

ServiceGone == \E cookie \in DOMAIN authenticated : on_web_service_gone(cookie)

SessionTimeout == \E cookie \in DOMAIN authenticated : on_authenticated_timeout(cookie)

ProcessTimeout == on_process_timeout

CheckCookie ==
    \E path \in Paths, in_headers \in CookieHeaders :
        cockpit_auth_check_cookie(path, in_headers)

\* The dialogue model: requests, helpers and transports.  The sessions it
\* creates stay as they are made: the events of a session read and write
\* only authenticated, the timers, poisoned and removed.
Next ==
    \/ LoginAsync({sAppPath}, RequestHeaders, BOOLEAN)
    \/ LoginFinish
    \/ PipeMessage(HelperReplies)
    \/ PipeClose(CloseErrors)
    \/ TransportResult

Spec == Init(Deployments) /\ [][Next]_vars

\* can_start_auth as cockpit_auth_login_async calls it, with n attempts in
\* flight, the one it is asked about counted, and the draw r
can_start_auth_called(n, r) ==
    /\ last = NoObs
    /\ last' = [Obs("can_start_auth") EXCEPT
                   !.startups = n, !.draw = r,
                   !.admitted = can_start_auth(n, max_startups_begin, max_startups_rate,
                                               max_startups, r)]
    /\ UNCHANGED << config_vars, startups, nonce_seed, gssapi_not_avail, timeout_tag, sources,
                    authenticated, authentication_pending, auth_data, results, begun,
                    issued, procs, poisoned, removed, sig_idling >>

CanStartAuth == \E n \in 1..MaxInFlight, r \in 0..99 : can_start_auth_called(n, r)

\* The admission model: can_start_auth of a manager made with each of the
\* MaxStartups settings
AdmissionSpec == Init(AdmissionDeployments) /\ [][CanStartAuth]_vars

\* the types action_for_type is asked about: "basic", "negotiate", "other",
\* "x-login-reply" and "z"
sUnknownLc == <<122>>
ChooserTypes == { sBasicLc, sNegotiateLc, sOtherLc, sLoginReplyLc, sUnknownLc }

\* configurations: each of "basic", "negotiate", "other" and "x-login-reply"
\* has no action key, or one that says spawn-login-with-header or none
ChooserConfs ==
    UNION { [S -> {ACTION_SPAWN_HEADER, ACTION_NONE}] :
              S \in SUBSET {sBasicLc, sNegotiateLc, sOtherLc, sLoginReplyLc} }
ChooserDeployments ==
    { [max_startups |-> NoStr, loopback |-> l, conf |-> c] :
        l \in BOOLEAN, c \in ChooserConfs }

\* action_for_type as cockpit_auth_choose_login_async calls it
action_for_type_called(type) ==
    /\ last = NoObs
    /\ last' = [Obs("action_for_type") EXCEPT
                   !.asked = Str(type),
                   !.action = action_for_type(type, login_loopback, cockpit_conf)]
    /\ UNCHANGED << config_vars, startups, nonce_seed, gssapi_not_avail, timeout_tag, sources,
                    authenticated, authentication_pending, auth_data, results, begun,
                    issued, procs, poisoned, removed, sig_idling >>

ChooseAction == \E type \in ChooserTypes : action_for_type_called(type)

\* The chooser model: action_for_type of a manager made with each
\* configuration and loopback flag
ChooserSpec == Init(ChooserDeployments) /\ [][ChooseAction]_vars

\* the fields a MaxStartups setting is made of: "", "0", "1", "5", "100",
\* "101" and "x"
StartupsFields ==
    { <<>>, <<48>>, <<49>>, <<53>>, <<49,48,48>>, <<49,48,49>>, <<120>> }

\* MaxStartups settings: none, and one, two or three fields with colons
\* between them
StartupsSettings ==
    { NoStr }
    \cup { Str(a) : a \in StartupsFields }
    \cup { Str(a \o sColon \o b) : a \in StartupsFields, b \in StartupsFields }
    \cup { Str(a \o sColon \o b \o sColon \o c) :
             a \in StartupsFields, b \in StartupsFields, c \in StartupsFields }

\* cockpit_auth_new on the manager cockpit_auth_init has made
cockpit_auth_new_called(max_startups_conf) ==
    /\ last = NoObs
    /\ max_startups' = cockpit_auth_new(max_startups_conf).max_startups
    /\ max_startups_begin' = cockpit_auth_new(max_startups_conf).max_startups_begin
    /\ max_startups_rate' = cockpit_auth_new(max_startups_conf).max_startups_rate
    /\ last' = [Obs("cockpit_auth_new") EXCEPT !.asked = max_startups_conf]
    /\ UNCHANGED << login_loopback, cockpit_conf, startups, nonce_seed, gssapi_not_avail,
                    timeout_tag, sources, authenticated, authentication_pending, auth_data,
                    results, begun, issued, procs, poisoned, removed, sig_idling >>

NewAuth == \E conf \in StartupsSettings : cockpit_auth_new_called(conf)

\* The construction model: cockpit_auth_new with each MaxStartups setting,
\* on the counters cockpit_auth_init has set
NewSpec == Init({dDefault}) /\ [][NewAuth]_vars

\* the error strings of a helper reply
ReplyErrors ==
    { JString("authentication-failed"), JString("authentication-unavailable"),
      JString("permission-denied"), JString("no-such-error"), JString("") }

\* the message, prompt and user of a helper reply: each is absent, a string
\* or a number
ReplyTexts == { JString(sPrompt), JNumber }
ReplyMembers ==
    UNION { [S -> ReplyTexts] : S \in SUBSET {"message", "prompt", "user"} }

\* what a helper can send that is no reply: data that is no JSON object,
\* data that is not UTF-8, and nothing
NoReplies == { JGarbage, JNotUtf8, NoData }

\* parse_cockpit_spawn_results as cockpit_auth_spawn_login_finish calls it,
\* for the reply of a helper of the given type
parse_cockpit_spawn_results_called(auth_type, response_data) ==
    /\ last = NoObs
    /\ LET sl == [NewAuthData("spawn") EXCEPT !.auth_type = auth_type,
                                              !.application = sCockpit]
           out == parse_cockpit_spawn_results(sl, response_data, gssapi_not_avail,
                                              nonce_seed)
       IN  /\ gssapi_not_avail' = out.gssapi_not_avail
           /\ nonce_seed' = out.seed
           /\ issued' = issued \o out.nonces
           /\ last' = [Obs("parse_cockpit_spawn_results") EXCEPT
                          !.asked = Str(auth_type), !.message = response_data,
                          !.error = out.error, !.creds = out.creds,
                          !.prompt = out.prompt]
    /\ UNCHANGED << config_vars, startups, timeout_tag, sources, authenticated,
                    authentication_pending, auth_data, results, begun, procs,
                    poisoned, removed, sig_idling >>

\* the reply has an error string, an error that is a number, or no error
ParseResults ==
    \E auth_type \in {sBasicLc, sNegotiateLc} :
        \/ \E v \in ReplyErrors, x \in ReplyMembers :
              parse_cockpit_spawn_results_called(
                  auth_type, JObject([n \in {"error"} |-> v] @@ x))
        \/ \E x \in ReplyMembers :
              parse_cockpit_spawn_results_called(
                  auth_type, JObject([n \in {"error"} |-> JNumber] @@ x))
        \/ \E x \in ReplyMembers :
              parse_cockpit_spawn_results_called(auth_type, JObject(x))
        \/ \E r \in NoReplies :
              parse_cockpit_spawn_results_called(auth_type, r)

\* The reply model: parse_cockpit_spawn_results on each reply, for a basic
\* and for a negotiate helper
ParseSpec == Init({dDefault}) /\ [][ParseResults]_vars

\* The session model: logins that a helper answers with a user or a prompt,
\* and the events of the sessions, the timers and check_cookie
SessionNext ==
    \/ LoginAsync(Paths, {[Authorization |-> hBasic]}, {TRUE})
    \/ LoginFinish
    \/ PipeMessage({rUser, rPrompt})
    \/ PipeClose({NoError})
    \/ ServiceIdling
    \/ ServiceBusy
    \/ ServiceDestroy
    \/ ServiceGone
    \/ SessionTimeout
    \/ ProcessTimeout
    \/ CheckCookie

SessionSpec == Init({dDefault}) /\ [][SessionNext]_vars

\* the cookies the sessions of a behaviour can have
SessionCookies ==
    { sCookiePrefix \o g_compute_hmac_for_data(k) : k \in 0..(3 * MaxBegins) }

\* The session model with the main loop running: an armed idle timer of a
\* session fires
FairSessionSpec ==
    SessionSpec /\ \A c \in SessionCookies : WF_vars(on_authenticated_timeout(c))

\* the ids the dialogues of a behaviour can have
DialogueIds == { g_compute_hmac_for_data(k) : k \in 0..(3 * MaxBegins) }

\* The dialogue model with the main loop running and the helpers alive: a
\* helper whose pipe is open replies, an open pipe closes (EOF or its
\* timeout), and a transport without a result emits one
FairDialogueSpec ==
    /\ Spec
    /\ \A id \in DialogueIds :
          /\ WF_vars(\E reply \in HelperReplies : on_auth_pipe_result(id, reply))
          /\ WF_vars(\E error \in CloseErrors : auth_pipe_close(id, error))
          /\ WF_vars(\E res \in TransportResults : on_remote_login_done(id, res[1], res[2]))

(* ------------------------------------------------------------------ *)
(* Properties                                                          *)
(* ------------------------------------------------------------------ *)

\* the errors a caller can be handed
InvalidResumeToken == GError("COCKPIT_ERROR_AUTHENTICATION_FAILED", "Invalid resume token")
ConnectionClosed == GError("COCKPIT_ERROR_FAILED", "Connection closed by host")

\* the step is cockpit_auth_login_async for a new attempt
IsLoginAsync == begun' = begun + 1

\* the step is cockpit_auth_login_finish for the result of attempt t
IsLoginFinish(t) == t \in DOMAIN results /\ t \notin DOMAIN results'

\* C1: startups equals the number of attempts begun and not yet finished,
\* whether an attempt succeeded, failed, ended in a prompt or was dropped by
\* admission; with no attempt in flight it is back at 0.
C1_StartupsCountInFlight ==
    /\ startups = Cardinality(DOMAIN results)
    /\ DOMAIN results \subseteq 1..begun

\* a login_finish ended one attempt in a prompt while another is in flight
C1_Witness ==
    /\ last.op = "login_finish"
    /\ ~last.prompt.null
    /\ startups = 1
    /\ begun = 2

\* C2 as stated: can_start_auth admits whenever startups <= max_startups_begin
\* and never admits when startups > max_startups, for every configuration
\* and draw.
C2_AdmissionMonotoneAsStated ==
    last.op = "can_start_auth" =>
        /\ last.startups <= max_startups_begin => last.admitted
        /\ last.startups > max_startups => ~last.admitted

\* C2, amended: can_start_auth admits whenever startups <= max_startups_begin,
\* and never admits when startups > max_startups unless max_startups is 0,
\* the setting that turns the throttle off.
C2_AdmissionMonotone ==
    last.op = "can_start_auth" =>
        /\ last.startups <= max_startups_begin => last.admitted
        /\ (max_startups # 0 /\ last.startups > max_startups) => ~last.admitted

\* can_start_auth refused an attempt beyond the hard limit of a throttle
\* with a rate below 100
C2_Witness ==
    /\ last.op = "can_start_auth"
    /\ max_startups # 0
    /\ max_startups_rate < 100
    /\ last.startups > max_startups
    /\ ~last.admitted

\* what a client keeps of a Set-Cookie header: the name=value before the
\* first ";"
cookie_pair(set_cookie) == SubSeq(set_cookie, 1, strchr(set_cookie, 59) - 1)

\* the cookie a name=value pair carries
cookie_of_pair(pair) ==
    g_base64_decode_inplace(StrFrom(pair, strchr(pair, sEquals[1]) + 1)).s

\* the session check_cookie is to find for a request: the one whose cookie
\* the header carries under the name of the path's application
session_asked_for(path, pair) ==
    IF g_str_has_prefix(pair, cockpit_auth_parse_application(path).s \o sEquals)
       /\ cookie_of_pair(pair) \in DOMAIN authenticated
    THEN Str(cookie_of_pair(pair))
    ELSE NoStr

\* C3: after a login_finish that succeeds, the cookie of its Set-Cookie
\* header is a key of the table of sessions and check_cookie with it gives
\* the session's service; every check_cookie gives the session its cookie
\* names or nothing; the cookie of a removed session is no key of the table
\* and check_cookie with it gives nothing.
C3_CookieNamesSession ==
    /\ (last.op = "login_finish" /\ ~last.set_cookie.null) =>
          LET pair == cookie_pair(last.set_cookie.s)
              cookie == cookie_of_pair(pair)
          IN  /\ cookie \in DOMAIN authenticated
              /\ authenticated[cookie].creds = last.creds
              /\ authenticated[cookie].service
              /\ \E p \in Paths :
                    authenticated_for_headers(authenticated, p, [Cookie |-> pair])
                        = Str(cookie)
    /\ last.op = "check_cookie" =>
          last.service = session_asked_for(last.path.s, last.asked.s)
    /\ \A c \in removed :
          /\ c \notin DOMAIN authenticated
          /\ \A p \in Paths, q \in Paths :
                authenticated_for_headers(
                    authenticated, p,
                    [Cookie |-> cockpit_auth_parse_application(q).s \o sEquals
                                    \o g_base64_encode(c)]) = NoStr

\* check_cookie found a session after another session was removed
C3_Witness ==
    /\ last.op = "check_cookie"
    /\ ~last.service.null
    /\ removed # {}

\* C4: no two nonces cockpit_auth_nonce returned are equal, each call
\* advances the counter, and so the ids of dialogues, the cookies of
\* sessions and the csrf tokens never collide.
C4_NoncesUnique ==
    /\ \A i, j \in 1..Len(issued) : i # j => issued[i] # issued[j]
    /\ Len(issued) = nonce_seed
    /\ \A id \in DOMAIN auth_data \cup authentication_pending :
          \E i \in 1..Len(issued) : issued[i] = id
    /\ \A c \in DOMAIN authenticated :
          /\ \E i \in 1..Len(issued) : c = sCookiePrefix \o issued[i]
          /\ \E i \in 1..Len(issued) : authenticated[c].creds.csrf_token = issued[i]
          /\ c # sCookiePrefix \o authenticated[c].creds.csrf_token
          /\ \A id \in DOMAIN auth_data \cup authentication_pending :
                /\ c # sCookiePrefix \o id
                /\ authenticated[c].creds.csrf_token # id

\* a session and a pending dialogue exist at once
C4_Witness ==
    /\ authentication_pending # {}
    /\ DOMAIN authenticated # {}
    /\ Len(issued) >= 4

\* C5: an id is in the table of pending dialogues exactly when its dialogue
\* is alive and awaits an X-Login-Reply request (a prompt of it was returned
\* by login_finish and no resume has found it since); and when a resume has
\* written its payload to a dialogue's pipe the id is out of the table.
C5_PendingIffAwaiting ==
    /\ \A id \in DOMAIN auth_data \cup authentication_pending :
          id \in authentication_pending
              <=> (id \in DOMAIN auth_data /\ auth_data[id].awaiting)
    /\ (last.op = "login_async" /\ last.action = ACTION_LOGIN_REPLY /\ ~last.to.null) =>
          /\ last.to.s \notin authentication_pending
          /\ last.to.s \in DOMAIN auth_data
          /\ auth_data[last.to.s].pending_result = last.task

\* a resume has found a dialogue that was in the table and written its
\* payload to the dialogue's pipe
C5_Witness ==
    /\ last.op = "login_async"
    /\ last.action = ACTION_LOGIN_REPLY
    /\ ~last.to.null
    /\ last.to.s \in DOMAIN auth_data
    /\ ~auth_data[last.to.s].awaiting
    /\ authentication_pending = {}

\* "VD8=", the base64 of the prompt "T?", "MTIz" and what it encodes, "123"
sPromptB64 == <<86,68,56,61>>
sReplyB64 == <<77,84,73,122>>
sReply == <<49,50,51>>

\* the three parts of C6, as one step
C6_Step ==
    /\ \A t \in DOMAIN results :
          (IsLoginFinish(t) /\ ~last'.prompt.null) =>
              /\ last'.prompt = Str(sPrompt)
              /\ ~results[t].ad.null
              /\ results[t].ad.s \in authentication_pending'
              /\ last'.www_authenticate =
                    Str(LOGIN_REPLY_HEADER \o sSpace \o results[t].ad.s \o sSpace
                            \o sPromptB64)
    /\ \A id \in authentication_pending :
          (IsLoginAsync /\ last'.admitted
           /\ last'.asked = Str(LOGIN_REPLY_HEADER \o sSpace \o id \o sSpace \o sReplyB64)) =>
              /\ last'.to = Str(id)
              /\ last'.sent = Str(sReply)
              /\ results'[begun'].tag = auth_data[id].tag
              /\ results'[begun'].ad = Str(id)
              /\ ~results'[begun'].complete
              /\ auth_data'[id].pending_result = begun'
              /\ id \notin authentication_pending'
    /\ \A t \in DOMAIN results :
          (/\ IsLoginFinish(t)
           /\ results[t].error = NoError
           /\ ~results[t].ad.null
           /\ auth_data[results[t].ad.s].tag = "spawn"
           /\ auth_data[results[t].ad.s].process_pid # t
           /\ auth_data[results[t].ad.s].response_data = rUser) =>
              /\ last'.error = NoError
              /\ ~last'.creds.null
              /\ last'.creds.user = sUser
              /\ ~last'.set_cookie.null
              /\ results[t].ad.s \notin authentication_pending'
              /\ authentication_pending' = authentication_pending

\* C6: a prompt of the helper makes login_finish return WWW-Authenticate
\* "X-Login-Reply <id> <base64 (prompt)>" with id in the table of pending
\* dialogues; a following login_async with "X-Login-Reply <id> MTIz" writes
\* "123" to that dialogue, with a result that carries the dialogue's method
\* tag; and when the helper then answers with a user the login succeeds and
\* the dialogue is not in the table.
C6_PromptAndResume == [][C6_Step]_vars

\* the login of a resumed dialogue succeeded: the second attempt got creds
\* from the helper the first one spawned
C6_Witness ==
    /\ last.op = "login_finish"
    /\ last.task = 2
    /\ ~last.creds.null
    /\ DOMAIN procs = {1}
    /\ procs[1] = "transport"
    /\ authentication_pending = {}

\* RFC 4648 base64: groups of four bytes of the alphabet, the last group
\* padded with one or two "="
IsBase64(p) ==
    /\ Len(p) % 4 = 0
    /\ \A i \in 1..Len(p) :
          \/ (mime_base64_rank(p[i]) # 255 /\ p[i] # sEquals[1])
          \/ (p[i] = sEquals[1] /\ i = Len(p))
          \/ (p[i] = sEquals[1] /\ i = Len(p) - 1 /\ p[Len(p)] = sEquals[1])

\* C7 as one step
C7_Step ==
    (/\ IsLoginAsync
     /\ last'.admitted
     /\ ~last'.asked.null
     /\ g_str_has_prefix(last'.asked.s, LOGIN_REPLY_HEADER \o sSpace)) =>
        LET parts == g_strsplit3(last'.asked.s)
        IN  (\/ Len(parts) # 3
             \/ parts[2] \notin authentication_pending
             \/ parts[3] = <<>>
             \/ ~IsBase64(parts[3])) =>
                /\ last'.error = InvalidResumeToken
                /\ results'[begun'].error = InvalidResumeToken
                /\ results'[begun'].complete
                /\ last'.to.null
                /\ last'.sent.null

\* C7: a login_async of type x-login-reply whose header does not split into
\* three parts, or names an id that is not in the table of pending
\* dialogues, or carries a payload that is empty or not valid base64,
\* completes with "Invalid resume token" and writes to no pipe.
C7_InvalidResumeRejected == [][C7_Step]_vars

\* C8 as one step
C8_Step ==
    /\ (IsLoginAsync /\ max_startups # 0 /\ startups + 1 > max_startups) =>
          /\ ~last'.admitted
          /\ last'.action = ""
          /\ ~last'.spawned
          /\ last'.to.null
          /\ last'.error = ConnectionClosed
          /\ results'[begun'].complete
          /\ results'[begun'].error = ConnectionClosed
          /\ results'[begun'].ad.null
          /\ auth_data' = auth_data
          /\ procs' = procs
          /\ authenticated' = authenticated
          /\ authentication_pending' = authentication_pending
    /\ \A t \in DOMAIN results :
          (IsLoginFinish(t) /\ results[t].tag = "NULL") =>
              /\ last'.error = ConnectionClosed
              /\ last'.creds.null
              /\ last'.prompt.null
              /\ auth_data' = auth_data
              /\ procs' = procs
              /\ authenticated' = authenticated
              /\ authentication_pending' = authentication_pending

\* C8: a login_async beyond the hard limit of the throttle (MaxStartups
\* "1:100:1" and a second request while the first is in flight) selects no
\* method, creates no dialogue and no process, leaves both tables alone and
\* completes with "Connection closed by host", which its login_finish
\* returns.
C8_AdmissionDrop == [][C8_Step]_vars

\* a request was dropped while another attempt was in flight
C8_Witness ==
    /\ last.op = "login_async"
    /\ ~last.admitted
    /\ max_startups = 1
    /\ startups = 2

\* C9 as one step
C9_Step ==
    /\ \A t \in DOMAIN results :
          (IsLoginFinish(t)
           /\ (results[t].error # NoError \/ last'.error # NoError \/ ~last'.prompt.null)) =>
              /\ authenticated' = authenticated
              /\ last'.set_cookie.null
              /\ last'.cookie.null
              /\ last'.creds.null
    /\ DOMAIN authenticated' # DOMAIN authenticated =>
          /\ \E t \in DOMAIN results : IsLoginFinish(t)
          /\ last'.op = "login_finish"
          /\ ~last'.creds.null
          /\ last'.error = NoError
          /\ last'.prompt.null
          /\ ~last'.set_cookie.null
          /\ DOMAIN authenticated' = DOMAIN authenticated \cup {last'.cookie.s}
          /\ authenticated'[last'.cookie.s].creds = last'.creds

\* C9: a login_finish that yields an error or a prompt inserts no session
\* and sets no Set-Cookie header; a session and its cookie are made only by
\* a login_finish whose method gave creds.
C9_NoSessionWithoutCreds == [][C9_Step]_vars

\* a login_finish returned a prompt, with its error, and there is no session
C9_Witness ==
    /\ last.op = "login_finish"
    /\ last.error = GError("COCKPIT_ERROR_AUTHENTICATION_FAILED", "X-Login-Reply needed")
    /\ ~last.prompt.null
    /\ last.set_cookie.null
    /\ DOMAIN authenticated = {}

\* C10: a session is in time removed, with its creds poisoned (as many creds
\* are poisoned as sessions are removed, and no two sessions share creds),
\* unless its service stops reporting idling: the idle timer armed at login,
\* and again each time the service reports idling, fires.
C10_IdleSessionExpires ==
    \A c \in SessionCookies :
        (c \in DOMAIN authenticated)
            ~> \/ (c \in removed /\ c \notin DOMAIN authenticated
                   /\ Cardinality(poisoned) = Cardinality(removed))
               \/ (c \in DOMAIN authenticated /\ ~authenticated[c].idling)

\* the idle timer of a session fired while its service reported idling: the
\* session is removed and its creds are poisoned
C10_Witness ==
    /\ last.op = "on_authenticated_timeout"
    /\ last.cookie.s \in removed
    /\ last.cookie.s \notin DOMAIN authenticated
    /\ poisoned # {}

\* the sessions that leave the table in the step
Leaving == DOMAIN authenticated \ DOMAIN authenticated'

\* C11 as one step
C11_Step ==
    /\ \A c \in Leaving :
          /\ last'.cookie = Str(c)
          /\ \/ last'.op = "on_web_service_destroy"
             \/ last'.op = "on_web_service_gone"
             \/ /\ last'.op = "on_authenticated_timeout"
                /\ authenticated[c].timeout_tag
                /\ authenticated[c].idling
    /\ last'.op = "on_process_timeout" => authenticated' = authenticated
    /\ (/\ last'.op = "on_authenticated_timeout"
        /\ ~authenticated[last'.cookie.s].idling) =>
          DOMAIN authenticated' = DOMAIN authenticated

\* C11: a session leaves the table of sessions only when its service
\* reports destroyed, when its idle timer fires while the service reports
\* idling, or when the web service is finalised; the process idle timer, and
\* an idle timer that fires while the service is not idling, leave the table
\* as it is.
C11_SessionLeavesByThreeEvents == [][C11_Step]_vars

\* an idle timer fired on a busy session, which stays, after another session
\* was removed
C11_Witness ==
    /\ last.op = "on_authenticated_timeout"
    /\ last.cookie.s \in DOMAIN authenticated
    /\ ~authenticated[last.cookie.s].idling
    /\ removed # {}

\* C12 as one step
C12_Step ==
    \A c \in Leaving :
        /\ ~last'.freed.timeout_tag
        /\ last'.freed.creds = << "cockpit_creds_poison", "cockpit_creds_unref" >>
        /\ authenticated[c].creds.csrf_token \in poisoned'
        /\ \/ last'.freed.service = "finalised"
           \/ /\ last'.freed.service = "disposed"
              /\ ~last'.freed.idling_sig
              /\ ~last'.freed.destroy_sig

C13_Step ==
    sig_idling' # sig_idling =>
        /\ last'.op = "on_process_timeout"
        /\ sig_idling' = sig_idling + 1
        /\ DOMAIN authenticated = {}
        /\ authentication_pending = {}
        /\ DOMAIN authenticated' = {}
        /\ authentication_pending' = {}

\* C13: the manager's "idling" signal is emitted only when the process idle
\* timer fires with the table of sessions and the table of pending dialogues
\* both empty, never while a session or a dialogue suspended on a prompt
\* exists.
C13_IdlingOnlyWhenEmpty == [][C13_Step]_vars

\* the signal was emitted after a session had come and gone
C13_Witness ==
    /\ last.op = "on_process_timeout"
    /\ sig_idling > 0
    /\ removed # {}

\* C14: action_for_type follows the first-match order for every type,
\* loopback flag and configuration: x-login-reply gives the resume whatever
\* the flag and the configuration say; otherwise loopback with basic gives
\* remote-login-ssh even with an action configured for basic; otherwise a
\* configured action is used; otherwise basic and negotiate give
\* spawn-login-with-decoded; otherwise none.
C14_FirstMatchOrder ==
    last.op = "action_for_type" =>
        LET type == last.asked.s
            reply == type = sLoginReplyLc
            ssh == login_loopback /\ type = sBasicLc
            configured == type \in DOMAIN cockpit_conf
        IN  /\ reply => last.action = "x-login-reply"
            /\ (~reply /\ ssh) => last.action = "remote-login-ssh"
            /\ (~reply /\ ~ssh /\ configured) => last.action = cockpit_conf[type]
            /\ (~reply /\ ~ssh /\ ~configured /\ type \in {sBasicLc, sNegotiateLc}) =>
                  last.action = "spawn-login-with-decoded"
            /\ (~reply /\ ~ssh /\ ~configured /\ type \notin {sBasicLc, sNegotiateLc}) =>
                  last.action = "none"

\* basic on a loopback manager whose configuration has an action for basic
C14_Witness ==
    /\ last.op = "action_for_type"
    /\ last.asked.s = sBasicLc
    /\ login_loopback
    /\ sBasicLc \in DOMAIN cockpit_conf
    /\ last.action = "remote-login-ssh"

\* the headers of the request an observation was made of
asked_headers(obs) ==
    IF obs.asked.null THEN NoHeaders ELSE [Authorization |-> obs.asked.s]

\* the type the request is taken to have
asked_type(obs) ==
    LET parsed == cockpit_auth_parse_authorization_type(asked_headers(obs))
    IN  IF parsed.null THEN sNegotiateLc ELSE parsed.s

\* the payload a spawn method reads from the request, NULL when it has none
asked_payload(obs) ==
    cockpit_auth_parse_authorization(asked_headers(obs),
                                     obs.action = "spawn-login-with-decoded")

AuthenticationRequired ==
    GError("COCKPIT_ERROR_AUTHENTICATION_FAILED", "Authentication required")

\* the step started no helper and created no dialogue, and the result of the
\* new attempt is complete with "Authentication required"
ShortCircuits ==
    /\ results'[begun'].complete
    /\ results'[begun'].error = AuthenticationRequired
    /\ results'[begun'].ad.null
    /\ last'.error = AuthenticationRequired
    /\ ~last'.spawned
    /\ last'.to.null
    /\ auth_data' = auth_data
    /\ procs' = procs

\* C15 as one step
C15_Step ==
    (IsLoginAsync /\ last'.admitted /\ last'.asked.null) =>
        /\ sNegotiateLc \notin DOMAIN cockpit_conf =>
              last'.action = "spawn-login-with-decoded"
        /\ last'.action \in {"spawn-login-with-decoded", "spawn-login-with-header"} =>
              IF gssapi_not_avail
              THEN ShortCircuits
              ELSE \/ /\ last'.spawned
                      /\ procs'[begun'] = "running"
                      /\ ~last'.to.null
                      /\ last'.to.s \in DOMAIN auth_data' \ DOMAIN auth_data
                      /\ auth_data'[last'.to.s].auth_type = sNegotiateLc
                      /\ last'.sent = Str(<< >>)
                      /\ ~results'[begun'].complete
                   \/ /\ ~last'.spawned
                      /\ procs' = procs
                      /\ results'[begun'].complete
                      /\ results'[begun'].error.code = "COCKPIT_ERROR_FAILED"

\* C15: a request without an Authorization header is taken as type
\* negotiate; the spawn method then starts the helper (unless the program
\* cannot be started, an internal error) and sends it the empty payload
\* while gssapi_not_avail is false, and fails at once with "Authentication
\* required", with no helper and no dialogue, when gssapi_not_avail is true.
C15_NoHeaderIsNegotiate == [][C15_Step]_vars

\* a second request without a header got a helper and the empty payload
C15_Witness ==
    /\ last.op = "login_async"
    /\ last.asked.null
    /\ last.spawned
    /\ last.sent = Str(<< >>)
    /\ begun = 2
    /\ ~gssapi_not_avail

\* the step is the login_finish of a spawn dialogue of type negotiate whose
\* helper replied with the error authentication-unavailable and no prompt
IsNegotiateUnavailableFinish ==
    \E t \in DOMAIN results :
        /\ IsLoginFinish(t)
        /\ results[t].tag = "spawn"
        /\ results[t].error = NoError
        /\ ~results[t].ad.null
        /\ auth_data[results[t].ad.s].auth_type = sNegotiateLc
        /\ auth_data[results[t].ad.s].response_data = rUnavailable

\* C16 as one step, as stated
C16_StepAsStated ==
    /\ IsNegotiateUnavailableFinish => gssapi_not_avail'
    /\ (/\ IsLoginAsync /\ last'.admitted /\ gssapi_not_avail
        /\ asked_type(last') = sNegotiateLc
        /\ last'.error.message # "Internal error starting") =>
           /\ results'[begun'].complete
           /\ results'[begun'].error.code = "COCKPIT_ERROR_AUTHENTICATION_FAILED"
           /\ ~last'.spawned
           /\ procs' = procs

\* C16 as stated: once a helper replied authentication-unavailable to a
\* negotiate attempt gssapi_not_avail is true, and every later negotiate
\* attempt completes with an authentication error without a helper (a
\* helper program that cannot be started is left aside).
C16_NegotiateShortCircuitsAsStated == [][C16_StepAsStated]_vars

\* C16 as one step, amended
C16_Step ==
    /\ IsNegotiateUnavailableFinish =>
          /\ gssapi_not_avail'
          /\ last'.error.code = "COCKPIT_ERROR_AUTHENTICATION_FAILED"
    /\ (/\ IsLoginAsync /\ last'.admitted /\ gssapi_not_avail
        /\ asked_type(last') = sNegotiateLc
        /\ last'.action \in {"spawn-login-with-decoded", "spawn-login-with-header"}) =>
           IF asked_payload(last').null
           THEN ShortCircuits
           ELSE \/ last'.spawned /\ last'.sent = asked_payload(last')
                \/ ~last'.spawned /\ results'[begun'].error.code = "COCKPIT_ERROR_FAILED"

\* C16, amended: the login_finish of a negotiate attempt whose helper
\* replied authentication-unavailable sets gssapi_not_avail and fails with
\* an authentication error; from then on a negotiate attempt whose
\* Authorization header gives no payload completes at once with
\* "Authentication required" without a helper, while a negotiate attempt
\* that carries a payload is still handed to a helper.
C16_NegotiateShortCircuits == [][C16_Step]_vars

\* with the flag set, a request with a Negotiate token got a helper
C16_Witness ==
    /\ gssapi_not_avail
    /\ last.op = "login_async"
    /\ last.asked = Str(hNegotiate)
    /\ last.spawned

\* C17 as one step
C17_Step ==
    /\ gssapi_not_avail => gssapi_not_avail'
    /\ (~gssapi_not_avail /\ gssapi_not_avail') => IsNegotiateUnavailableFinish

\* C17: gssapi_not_avail starts false, becomes true only in the finish of a
\* spawn dialogue of type negotiate whose helper reported
\* authentication-unavailable, and is never reset.
C17_GssapiFlagMonotone == ~gssapi_not_avail /\ [][C17_Step]_vars

\* the finish that set the flag
C17_Witness ==
    /\ last.op = "login_finish"
    /\ gssapi_not_avail
    /\ last.error.message = "Negotiate authentication not available"

\* the dialogues a result is attached to
AttachedTo(t) == { id \in DOMAIN auth_data : auth_data[id].pending_result = t }

\* every attached result is a live, incomplete result that names its
\* dialogue, and every incomplete result is attached to the dialogue it names
OneCompletion ==
    /\ \A id \in DOMAIN auth_data :
          auth_data[id].pending_result # 0 =>
              /\ auth_data[id].pending_result \in DOMAIN results
              /\ ~results[auth_data[id].pending_result].complete
              /\ results[auth_data[id].pending_result].ad = Str(id)
    /\ \A t \in DOMAIN results :
          ~results[t].complete => AttachedTo(t) = { results[t].ad.s }

\* C18 as one step: auth_data_add_pending_result acts in a login_async that
\* leaves its result incomplete, on the dialogue the result names
C18_Step ==
    /\ (IsLoginAsync /\ ~results'[begun'].complete) =>
          LET id == results'[begun'].ad.s
          IN  /\ id \in DOMAIN auth_data => auth_data[id].pending_result = 0
              /\ auth_data'[id].pending_result = begun'
    /\ OneCompletion'

\* C18: a dialogue has at most one outstanding result: over every
\* interleaving of login_async, resume, helper message, pipe close,
\* transport result and login_finish, auth_data_add_pending_result acts only
\* on a dialogue without a result, each attached result is incomplete, and
\* each incomplete result is attached to exactly its own dialogue.
C18_OneOutstandingCompletion == OneCompletion /\ [][C18_Step]_vars

\* a resume attached a second result to a dialogue whose first was finished
C18_Witness ==
    /\ last.op = "login_async"
    /\ last.action = "x-login-reply"
    /\ ~last.to.null
    /\ auth_data[last.to.s].pending_result = 2
    /\ DOMAIN results = {2}

\* attempt t has a result that is not completed yet
Outstanding(t) == t \in DOMAIN results /\ ~results[t].complete

\* attempt t has a completed result that its caller can finish
Completed(t) == t \in DOMAIN results /\ results[t].complete

\* never more than one completion: a call makes one result, an incomplete
\* result stays until it is completed, a completed result is not touched
\* again until login_finish consumes it, and a consumed one does not return
C19_Step ==
    /\ IsLoginAsync => begun' \in DOMAIN results' /\ begun' \notin DOMAIN results
    /\ \A t \in 1..MaxBegins :
          /\ Outstanding(t) => t \in DOMAIN results'
          /\ Completed(t) => (t \notin DOMAIN results' \/ results'[t] = results[t])
          /\ (t <= begun /\ t \notin DOMAIN results) => t \notin DOMAIN results'

C19_AtMostOneCompletion == [][C19_Step]_vars

\* C19: every cockpit_auth_login_async publishes exactly one completion:
\* never more than one, and, while helpers reply, pipes close or time out and
\* transports emit their result, eventually one.
C19_ExactlyOneCompletion ==
    /\ [][C19_Step]_vars
    /\ \A t \in 1..MaxBegins : Outstanding(t) ~> Completed(t)

\* the step is the "close" of a pipe with the timeout error, on a dialogue
\* of the given kind that has a result attached
TimeoutWithResult(tag) ==
    /\ last'.op = "auth_pipe_close"
    /\ last'.error = eTimeout
    /\ last'.task # 0
    /\ auth_data[last'.to.s].tag = tag

\* the result that was attached is completed with the timeout error
ResolvedWithTimeout(obs, rs) ==
    /\ rs[obs.task].complete
    /\ rs[obs.task].error = eTimeout

C20_StepAsStated ==
    (TimeoutWithResult("spawn") \/ TimeoutWithResult("remote"))
        => ResolvedWithTimeout(last', results')

C20_Step ==
    /\ TimeoutWithResult("spawn") => ResolvedWithTimeout(last', results')
    /\ TimeoutWithResult("remote") =>
          /\ results'[last'.task] = results[last'.task]
          /\ ~results'[last'.task].complete
          /\ auth_data'[last'.to.s].pending_result = last'.task

IsNumber(s) == s # <<>> /\ \A i \in 1..Len(s) : s[i] >= 48 /\ s[i] <= 57

\* the value of a decimal number, from its last digit
RECURSIVE NumberValue(_)
NumberValue(s) ==
    IF s = <<>> THEN 0
    ELSE 10 * NumberValue(SubSeq(s, 1, Len(s) - 1)) + (s[Len(s)] - 48)

\* the setting begins with a number
BeginsWithNumber(s) == s # <<>> /\ s[1] >= 48 /\ s[1] <= 57

\* the counters are the defaults
StartupsDefaults ==
    /\ max_startups = max_startups_default
    /\ max_startups_begin = max_startups_default
    /\ max_startups_rate = 100

\* a single number, or a number with one more field, sets the hard limit
\* with rate 100, a setting that does not begin with a number leaves the
\* defaults, and three numbers are taken
\* when begin <= max and 1 <= rate <= 100 and leave the defaults otherwise
StartupsParsed ==
    last.op = "cockpit_auth_new" =>
        /\ (~last.asked.null /\ IsNumber(last.asked.s)) =>
              /\ max_startups = NumberValue(last.asked.s)
              /\ max_startups_begin = NumberValue(last.asked.s)
              /\ max_startups_rate = 100
        /\ (last.asked.null \/ ~BeginsWithNumber(last.asked.s)) => StartupsDefaults
        /\ \A a \in StartupsFields, b \in StartupsFields :
              (last.asked = Str(a \o sColon \o b) /\ IsNumber(a)) =>
                  /\ max_startups = NumberValue(a)
                  /\ max_startups_begin = NumberValue(a)
                  /\ max_startups_rate = 100
        /\ \A a \in StartupsFields, b \in StartupsFields, c \in StartupsFields :
              (/\ last.asked = Str(a \o sColon \o b \o sColon \o c)
               /\ IsNumber(a) /\ IsNumber(b) /\ IsNumber(c)) =>
                  IF NumberValue(a) <= NumberValue(c) /\ NumberValue(b) \in 1..100
                  THEN /\ max_startups_begin = NumberValue(a)
                       /\ max_startups_rate = NumberValue(b)
                       /\ max_startups = NumberValue(c)
                  ELSE StartupsDefaults

\* C21 as stated: after cockpit_auth_new with any MaxStartups setting,
\* 1 <= max_startups_begin <= max_startups and 1 <= max_startups_rate <= 100.
C21_CountersInRangeAsStated ==
    /\ 1 <= max_startups_begin
    /\ max_startups_begin <= max_startups
    /\ 1 <= max_startups_rate /\ max_startups_rate <= 100
    /\ StartupsParsed

\* C21: after cockpit_auth_new with any MaxStartups setting,
\* 0 <= max_startups_begin <= max_startups and 1 <= max_startups_rate <= 100
\* (a limit of 0 is accepted); a single number sets the hard limit with rate
\* 100, and a setting that does not begin with a number, or three numbers
\* out of range, leave the defaults.
C21_CountersInRange ==
    /\ 0 <= max_startups_begin
    /\ max_startups_begin <= max_startups
    /\ 1 <= max_startups_rate /\ max_startups_rate <= 100
    /\ StartupsParsed

\* a three-number setting out of range was reverted to the defaults
C21_Witness ==
    /\ last.op = "cockpit_auth_new"
    /\ last.asked = Str(<<53,58,49,48,49,58,53>>)      \* "5:101:5"
    /\ StartupsDefaults

\* the step is the "close" of the pipe of a spawn dialogue
SpawnClose ==
    /\ last'.op = "auth_pipe_close"
    /\ auth_data[last'.to.s].tag = "spawn"

\* the results other than t are as they were
OthersUntouched(t) ==
    /\ DOMAIN results' = DOMAIN results
    /\ \A u \in DOMAIN results \ {t} : results'[u] = results[u]

C22_Step ==
    SpawnClose =>
        IF last'.task # 0
        THEN /\ results'[last'.task] =
                   [results[last'.task] EXCEPT !.complete = TRUE, !.error = last'.error]
             /\ OthersUntouched(last'.task)
             /\ auth_data'[last'.to.s].pending_result = 0
             /\ last'.logged = ""
        ELSE /\ results' = results
             /\ last'.logged = IF last'.error = NoError THEN ""
                               ELSE "Dropped authentication error"

\* C22: on the "close" of a spawn dialogue's pipe, an attached result is
\* completed with the close error, or with success when there is none, and
\* detached; without an attached result no result changes, a close without
\* an error leaves no trace and a close with an error is only logged as a
\* dropped error.
C22_SpawnCloseResolves == [][C22_Step]_vars

\* a pipe closed without an error under an attached result, which succeeded
C22_Witness ==
    /\ last.op = "auth_pipe_close"
    /\ last.error = NoError
    /\ last.task # 0
    /\ last.to.s \in DOMAIN auth_data
    /\ auth_data[last.to.s].tag = "spawn"
    /\ results[last.task].complete
    /\ results[last.task].error = NoError

\* the step is a helper message on a dialogue that has a result attached
MessageWithResult ==
    /\ last'.op = "on_auth_pipe_result"
    /\ last'.task # 0

\* the message is kept and the attached result succeeds
MessageResolves ==
    /\ auth_data'[last'.to.s].response_data = last'.message
    /\ results'[last'.task].complete
    /\ results'[last'.task].error = NoError
    /\ auth_data'[last'.to.s].pending_result = 0

C23_Step == MessageWithResult => MessageResolves

\* C23: on every helper message, whatever state the dialogue is in, the
\* payload is stored in response_data and the attached result is completed
\* with success.
C23_MessageAlwaysResolves == [][C23_Step]_vars

\* the child of attempt t and its fds belong to a pipe transport: the
\* manager has neither killed the child nor closed the fds
OwnedByTransport(ps, t) ==
    /\ t \in DOMAIN ps
    /\ ps[t] = "transport"
    /\ (2 * t + 10) \notin DOMAIN ps
    /\ (2 * t + 11) \notin DOMAIN ps

\* the step is a login_finish that returns creds for a spawn result
SpawnSuccess ==
    /\ last'.op = "login_finish"
    /\ ~last'.creds.null
    /\ results[last'.task].tag = "spawn"

C24_Step ==
    /\ SpawnSuccess =>
          LET id == results[last'.task].ad.s
              pid == auth_data[id].process_pid
          IN  /\ pid # 0
              /\ OwnedByTransport(procs', pid)
              /\ id \in DOMAIN auth_data' =>
                    /\ auth_data'[id].process_pid = 0
                    /\ auth_data'[id].process_in = -1
                    /\ auth_data'[id].process_out = -1
    /\ \A t \in 1..MaxBegins :
          OwnedByTransport(procs, t) => OwnedByTransport(procs', t)

\* C24: when cockpit_auth_spawn_login_finish returns creds, the child and
\* its fds pass to the new pipe transport and the dialogue's pid and fds are
\* reset (0 and -1), so that the teardown of the dialogue, then and later,
\* neither closes those fds nor sends SIGTERM to the child.
C24_TransportOwnsChild == [][C24_Step]_vars

\* a spawn login succeeded and its dialogue was torn down: the child is the
\* transport's and no fd was closed
C24_Witness ==
    /\ last.op = "login_finish"
    /\ ~last.creds.null
    /\ auth_data = NoSessions
    /\ OwnedByTransport(procs, 1)

\* the step is a login_finish of a spawn dialogue whose child is alive, and
\* it gives neither creds nor a pending prompt
SpawnFailure ==
    /\ last'.op = "login_finish"
    /\ last'.creds.null
    /\ results[last'.task].tag = "spawn"
    /\ results[last'.task].ad.s \in DOMAIN auth_data
    /\ auth_data[results[last'.task].ad.s].process_pid # 0
    /\ procs[auth_data[results[last'.task].ad.s].process_pid] = "running"
    /\ results[last'.task].ad.s \notin authentication_pending'

\* the child of the dialogue was sent SIGTERM and the dialogue, if it is
\* still there, has pid 0
ChildReaped(id) ==
    /\ procs'[auth_data[id].process_pid] = "killed"
    /\ id \in DOMAIN auth_data' => auth_data'[id].process_pid = 0

C25_Step == SpawnFailure => ChildReaped(results[last'.task].ad.s)

IsStringMember(o, n) == n \in DOMAIN o /\ o[n].t = "string"

\* the member of a reply is absent or a string
WellTyped(o, n) == n \notin DOMAIN o \/ o[n].t = "string"

\* the error kind the claim gives the error string of a failure reply
ErrorKindOf(error_str) ==
    IF error_str \in {"authentication-failed", "authentication-unavailable"}
    THEN "COCKPIT_ERROR_AUTHENTICATION_FAILED"
    ELSE IF error_str = "permission-denied" THEN "COCKPIT_ERROR_PERMISSION_DENIED"
    ELSE "COCKPIT_ERROR_FAILED"

IsQuotient(q, a, b) == q * b <= a /\ a < (q + 1) * b

\* the reference decision for n attempts in flight and the draw r
StartReference(n, begin, rate, max, r) ==
    IF max = 0 THEN TRUE
    ELSE IF n <= begin THEN TRUE
    ELSE IF n > max THEN FALSE
    ELSE IF rate = 100 THEN FALSE
    ELSE \E q \in 0..100 :
            /\ IsQuotient(q, (100 - rate) * (n - begin), max - begin)
            /\ r >= q + rate

PendingPipesOpen ==
    \A id \in authentication_pending :
        id \in DOMAIN auth_data /\ auth_data[id].pipe_open

\* C28: no id is in authentication_pending once the pipe of its dialogue
\* has closed, also when the close comes between the helper's prompt and
\* the login_finish that inserts the id, and every id that is inserted is
\* removed again (by a resume, by the close of the pipe or by the end of
\* the dialogue).
C28_PendingPurged ==
    /\ []PendingPipesOpen
    /\ \A id \in DialogueIds :
          (id \in authentication_pending) ~> (id \notin authentication_pending)

(* ------------------------------------------------------------------ *)
(* The first step of an attempt                                        *)
(* ------------------------------------------------------------------ *)

\* a manager with login_loopback whose configuration sends the type other
\* to the helper with a decoded payload, and one whose configuration sends
\* the type other to the SSH transport
dLoopback ==
    [max_startups |-> NoStr, loopback |-> TRUE, conf |-> (sOtherLc :> ACTION_SPAWN_DECODE)]
dRemote ==
    [max_startups |-> NoStr, loopback |-> FALSE, conf |-> (sOtherLc :> ACTION_SSH)]

BeginDeployments == { dDefault, dLoopback, dRemote }

hBasicShort == <<66,97,115,105,99,32,33>>                    \* "Basic !"
hOtherCred == <<79,116,104,101,114,32,100,84,112,119>>       \* "Other dTpw" (u:p)

\* first requests with and without a credential: no Authorization header,
\* "Basic dTpw", "Basic dQ==", "Basic !", "Negotiate dG9r", "Other x" and
\* "Other dTpw"
BeginHeaders ==
    { NoHeaders } \cup { [Authorization |-> h] :
        h \in {hBasic, hBasicNoColon, hBasicShort, hNegotiate, hOther, hOtherCred} }

\* a path that names no application: "x"
sNoSlash == <<120>>

\* Requests arrive at a manager and are finished; the helper of a negotiate
\* attempt may answer that gssapi is not available.
BeginNext ==
    \/ LoginAsync({sAppPath, sNoSlash}, BeginHeaders, BOOLEAN)
    \/ LoginFinish
    \/ PipeMessage({rUnavailable})

BeginSpec == Init(BeginDeployments) /\ [][BeginNext]_vars

\* the error of the spec's kind AuthenticationRequired: the code
\* COCKPIT_ERROR_AUTHENTICATION_FAILED with one of the two messages that
\* ask for an Authorization header
IsAuthenticationRequired(error) ==
    /\ error.code = "COCKPIT_ERROR_AUTHENTICATION_FAILED"
    /\ error.message \in {"Authentication required", "Basic authentication required"}

\* the request carries a basic credential: the type is basic, the payload
\* decodes and has a user and a password around a ':'
WellFormedBasic(obs) ==
    LET payload == cockpit_auth_parse_authorization(asked_headers(obs), TRUE)
    IN  /\ asked_type(obs) = sBasicLc
        /\ ~payload.null
        /\ \E i \in 1..Len(payload.s) : payload.s[i] = sColon[1]

\* no payload can be produced for the helper: the request has none that can
\* be read, and the empty payload of negotiate is not to be sent
NoSpawnPayload(obs) ==
    /\ asked_payload(obs).null
    /\ asked_type(obs) # sNegotiateLc \/ gssapi_not_avail

\* the attempt failed at once and left the manager as it was: no dialogue,
\* no nonce drawn, no helper and no transport
FailsAtOnce ==
    /\ results'[begun'].complete
    /\ IsAuthenticationRequired(results'[begun'].error)
    /\ results'[begun'].ad.null
    /\ last'.error = results'[begun'].error
    /\ ~last'.spawned
    /\ last'.to.null
    /\ auth_data' = auth_data
    /\ authentication_pending' = authentication_pending
    /\ procs' = procs
    /\ issued' = issued
    /\ nonce_seed' = nonce_seed

\* C29 as one step
C29_Step ==
    (IsLoginAsync /\ last'.admitted) =>
        /\ (last'.action \in {ACTION_SPAWN_HEADER, ACTION_SPAWN_DECODE}
              /\ NoSpawnPayload(last')) => FailsAtOnce
        /\ (last'.action = ACTION_SSH /\ ~WellFormedBasic(last')) => FailsAtOnce

\* C29: an attempt of the spawn method for which no payload can be produced,
\* and an attempt of the remote method whose request is not a basic
\* credential (another type, no payload, a payload that does not decode or
\* has no ':'), fails at once with COCKPIT_ERROR_AUTHENTICATION_FAILED
\* "Authentication required" / "Basic authentication required": the result
\* is complete, no AuthData is created, no nonce is drawn, no helper is
\* started and no transport is made.
C29_FailsWithoutDialogue == [][C29_Step]_vars

\* on a loopback manager "Basic dQ==" (no ':') failed in the remote method
\* and "Other x" (no payload after decoding) failed in the spawn method,
\* and there is no dialogue and no helper
C29_Witness ==
    /\ begun = 2
    /\ DOMAIN results = {1, 2}
    /\ login_loopback
    /\ results[1].tag = "remote"
    /\ results[1].error.message = "Basic authentication required"
    /\ results[2].tag = "spawn"
    /\ results[2].error.message = "Authentication required"
    /\ last.op = "login_async"
    /\ last.asked = Str(hOther)
    /\ DOMAIN auth_data = {}
    /\ DOMAIN procs = {}
    /\ issued = <<>>

(* ------------------------------------------------------------------ *)
(* Idle timers                                                         *)
(* ------------------------------------------------------------------ *)

\* C30: on_web_service_idling removes the source of the session's idle
\* timer before it adds a new one, and removes the source of the process
\* idle timer before it adds a new one, so at any time at most one source
\* of on_process_timeout is armed, and it is armed exactly when
\* self->timeout_tag is set; every session has at most one armed source of
\* on_authenticated_timeout, armed exactly when its timeout_tag is set; a
\* session that was removed has none; and after a run of the handler the
\* session and the manager have one each.
C30_OneTimerEach ==
    /\ sources.process <= 1
    /\ timeout_tag <=> sources.process = 1
    /\ DOMAIN authenticated \subseteq DOMAIN sources.session
    /\ \A c \in DOMAIN sources.session :
          /\ sources.session[c] <= 1
          /\ IF c \in DOMAIN authenticated
             THEN authenticated[c].timeout_tag <=> sources.session[c] = 1
             ELSE sources.session[c] = 0
    /\ last.op = "on_web_service_idling" =>
          /\ sources.session[last.cookie.s] = 1
          /\ sources.process = 1

\* the handler ran for a session whose idle timer was armed: the old source
\* was removed, and one source is armed for the session and one for the
\* manager
C30_Witness ==
    /\ last.op = "on_web_service_idling"
    /\ last.freed.timeout_tag
    /\ last.cookie.s \in DOMAIN authenticated
    /\ authenticated[last.cookie.s].timeout_tag
    /\ sources.session[last.cookie.s] = 1
    /\ sources.process = 1

(* ------------------------------------------------------------------ *)
(* Sessions of the remote method                                       *)
(* ------------------------------------------------------------------ *)

\* the step finished attempt t of the remote method and made a session
RemoteSessionMade(t) ==
    /\ IsLoginFinish(t)
    /\ results[t].tag = "remote"
    /\ DOMAIN authenticated' # DOMAIN authenticated

\* C31 as one step
C31_Step ==
    \A t \in DOMAIN results :
        RemoteSessionMade(t) =>
            /\ ~results[t].ad.null
            /\ auth_data[results[t].ad.s].has_transport_result
            /\ auth_data[results[t].ad.s].problem = NoProblem

\* C31: cockpit_auth_login_finish makes a session for an attempt of the
\* remote method only when the transport of its dialogue has emitted
\* "result" without a problem; a result with a problem never leads to a
\* session, also when it arrives while no completion is attached.
C31_SessionOnlyWithoutProblem == [][C31_Step]_vars

(* ------------------------------------------------------------------ *)
(* Replies with more than one of prompt, error and user                *)
(* ------------------------------------------------------------------ *)

\* C32: a reply of the helper that has an error member or a prompt member
\* gives no creds (and so no session, which cockpit_auth_login_finish makes
\* of creds only), whatever its user member is; among replies whose error,
\* message and prompt are strings or absent, one with a prompt gives the
\* prompt and "X-Login-Reply needed" whatever else it has, one without a
\* prompt and with an error gives the error and no prompt, and only a reply
\* without both gives creds, for its user.
C32_UserOnlyWithoutErrorOrPrompt ==
    last.op = "parse_cockpit_spawn_results" =>
        LET r == last.message
            o == r.o
        IN  /\ (r.kind = "object" /\ ("error" \in DOMAIN o \/ "prompt" \in DOMAIN o)) =>
                  /\ last.creds.null
                  /\ last.error # NoError
            /\ (r.kind = "object" /\ WellTyped(o, "error") /\ WellTyped(o, "message")
                  /\ WellTyped(o, "prompt")) =>
                  IF "prompt" \in DOMAIN o
                  THEN /\ last.prompt = Str(o["prompt"].v)
                       /\ last.error.message = "X-Login-Reply needed"
                  ELSE IF "error" \in DOMAIN o
                  THEN /\ last.prompt.null
                       /\ last.error.code = ErrorKindOf(o["error"].v)
                  ELSE ~last.creds.null <=> IsStringMember(o, "user")
            /\ ~last.creds.null =>
                  /\ r.kind = "object"
                  /\ "error" \notin DOMAIN o /\ "prompt" \notin DOMAIN o
                  /\ last.creds.user = o["user"].v

\* the helper sent an error together with a user: the error is reported
\* and there are no creds
C32_Witness ==
    /\ last.op = "parse_cockpit_spawn_results"
    /\ last.message = JObject([error |-> JString("authentication-failed"),
                               user |-> JString(sPrompt)])
    /\ last.error.message = "Authentication failed"
    /\ last.creds.null

(* ------------------------------------------------------------------ *)
(* Resume requests                                                     *)
(* ------------------------------------------------------------------ *)

\* the pieces of the Authorization header of the request
asked_parts(obs) == IF obs.asked.null THEN <<>> ELSE g_strsplit3(obs.asked.s)

\* a payload that is empty or is not base64 of at least one byte
BadPayload(p) ==
    \/ Len(p) < 2
    \/ g_base64_decode_inplace(p).null
    \/ Len(g_base64_decode_inplace(p).s) < 1

\* the request is X-Login-Reply with the id and a payload
ResumeNaming(obs, id) ==
    /\ obs.action = ACTION_LOGIN_REPLY
    /\ Len(asked_parts(obs)) = 3
    /\ asked_parts(obs)[2] = id

\* C33 as one step: the request that names a pending id with a bad payload,
\* and the finish of that request
C33_Step ==
    /\ \A id \in authentication_pending :
          (IsLoginAsync /\ last'.admitted /\ ResumeNaming(last', id)
             /\ BadPayload(asked_parts(last')[3])) =>
              /\ id \notin authentication_pending'
              /\ id \in DOMAIN auth_data'
              /\ ~auth_data'[id].h_purge
              /\ auth_data'[id].pending_result = 0
              /\ results'[begun'].complete
              /\ results'[begun'].error = InvalidResumeToken
              /\ results'[begun'].ad = Str(id)
              /\ last'.error = InvalidResumeToken
              /\ last'.to.null
              /\ procs' = procs
    /\ \A t \in DOMAIN results :
          (IsLoginFinish(t) /\ results[t].error = InvalidResumeToken
             /\ ~results[t].ad.null) =>
              LET id == results[t].ad.s
              IN  /\ id \notin DOMAIN auth_data'
                  /\ id \notin authentication_pending'
                  /\ (auth_data[id].tag = "spawn" /\ auth_data[id].process_pid # 0) =>
                        procs'[auth_data[id].process_pid] = "killed"
                  /\ last'.error = InvalidResumeToken
                  /\ authenticated' = authenticated

\* C33: an X-Login-Reply request that names an id in authentication_pending
\* with an empty or undecodable payload takes the id out of the table and
\* disconnects purge_auth_id before it looks at the payload; it completes
\* with "Invalid resume token", sends nothing to the pipe and holds the
\* dialogue by its result; when that result is finished and released the
\* dialogue is freed and the child of a spawn dialogue is sent SIGTERM, so
\* no later request finds it.
C33_BadPayloadConsumesId == [][C33_Step]_vars

\* the request named the dialogue of attempt 1 with the payload "!": the id
\* is out of the table, the dialogue is held by the failed result, and its
\* helper still runs
C33_Witness ==
    /\ last.op = "login_async"
    /\ last.error = InvalidResumeToken
    /\ begun = 2
    /\ 2 \in DOMAIN results
    /\ ~results[2].ad.null
    /\ asked_parts(last)[3] = <<33>>
    /\ results[2].ad.s \notin authentication_pending
    /\ results[2].ad.s \in DOMAIN auth_data
    /\ auth_data[results[2].ad.s].tag = "spawn"
    /\ procs[1] = "running"

\* the attempts of a behaviour of the resume model
MaxResumes == 3

\* The resume model: a negotiate login on a default manager whose helper
\* prompts, and X-Login-Reply requests that name its dialogue or no
\* dialogue, with a good payload, a bad one or none
ResumeRequest ==
    \E headers \in {[Authorization |-> hNegotiate]}
                       \cup ResumeHeaders(DOMAIN auth_data \cup {sBogusId}),
       r \in Draws :
        cockpit_auth_login_async_upto(MaxResumes, sAppPath, headers, r, TRUE)

ResumeNext ==
    \/ ResumeRequest
    \/ LoginFinish
    \/ PipeMessage({rPrompt, rUser})
    \/ PipeClose({NoError})

ResumeSpec == Init({dDefault}) /\ [][ResumeNext]_vars

\* the ids of the resume model
ResumeIds == { g_compute_hmac_for_data(k) : k \in 0..(3 * MaxResumes) } \cup { sBogusId }

\* the reply the dialogue holds has a prompt
HoldsPrompt(ad) ==
    /\ ad.response_data.kind = "object"
    /\ "prompt" \in DOMAIN ad.response_data.o

\* C34 as one step
C34_Step ==
    \A id \in ResumeIds :
        /\ (IsLoginAsync /\ last'.admitted /\ ResumeNaming(last', id)) =>
              IF id \in authentication_pending
              THEN /\ id \notin authentication_pending'
                   /\ results'[begun'].ad = Str(id)
              ELSE /\ results'[begun'].complete
                   /\ results'[begun'].error = InvalidResumeToken
                   /\ results'[begun'].ad.null
                   /\ last'.error = InvalidResumeToken
                   /\ last'.to.null
                   /\ auth_data' = auth_data
                   /\ authentication_pending' = authentication_pending
                   /\ procs' = procs
        /\ (id \notin authentication_pending /\ id \in authentication_pending') =>
              \E t \in DOMAIN results :
                  /\ IsLoginFinish(t)
                  /\ results[t].ad = Str(id)
                  /\ HoldsPrompt(auth_data[id])
                  /\ last'.error.message = "X-Login-Reply needed"
                  /\ ~last'.www_authenticate.null
                  /\ g_strsplit3(last'.www_authenticate.s)[2] = id
                  /\ id \in DOMAIN auth_data'

\* C34: an X-Login-Reply request that names an id in authentication_pending
\* takes it out of the table; a request that names an id that is not in the
\* table (never there, or taken out by an earlier request) fails with
\* "Invalid resume token", bound to no dialogue and changing none; and an id
\* comes into the table only in the cockpit_auth_login_finish of a request
\* bound to the dialogue with that id whose helper reply has a prompt, the
\* challenge naming the same id.
C34_ResumeIdSingleUse == [][C34_Step]_vars

\* the third request names the id the second one took out of the table:
\* the dialogue is alive and held by the second request, and the third
\* fails with "Invalid resume token"
C34_Witness ==
    /\ last.op = "login_async"
    /\ begun = 3
    /\ DOMAIN results = {2, 3}
    /\ ~results[2].ad.null
    /\ results[2].error = NoError
    /\ results[2].ad.s \in DOMAIN auth_data
    /\ ResumeNaming(last, results[2].ad.s)
    /\ results[3].ad.null
    /\ results[3].error = InvalidResumeToken
    /\ authentication_pending = {}

(* ------------------------------------------------------------------ *)
(* Admission with large limits                                         *)
(* ------------------------------------------------------------------ *)

\* MaxStartups settings with a hard limit beyond 2^32 / 99: "0:1:43383509",
\* "10:50:100000000" and "1000:1:43383508", and two small ones, "1:50:3"
\* and "2:30:5"
WideSettings ==
    { Str(<<48,58,49,58,52,51,51,56,51,53,48,57>>),
      Str(<<49,48,58,53,48,58,49,48,48,48,48,48,48,48,48>>),
      Str(<<49,48,48,48,58,49,58,52,51,51,56,51,53,48,56>>),
      Str(<<49,58,53,48,58,51>>), Str(<<50,58,51,48,58,53>>) }

WideDeployments ==
    { [max_startups |-> m, loopback |-> FALSE, conf |-> NoHeaders] : m \in WideSettings }

\* numbers of attempts in flight: few, and as many as the large limits allow
WideInFlight == (1..5) \cup { 1001, 43383508, 43383509, 85899356, 100000000 }

WideCanStartAuth == \E n \in WideInFlight, r \in 0..99 : can_start_auth_called(n, r)

\* The admission model with large limits: can_start_auth for each number of
\* attempts in flight and each draw
WideAdmissionSpec == Init(WideDeployments) /\ [][WideCanStartAuth]_vars

\* can_start_auth comes to its draw: none of its four tests returns
DrawsForStart(n) ==
    /\ max_startups # 0
    /\ n > max_startups_begin
    /\ n <= max_startups
    /\ max_startups_rate # 100

\* C35: whenever can_start_auth comes to its draw, max_startups -
\* max_startups_begin is positive, the product (100 - rate) * (startups -
\* begin) fits the 32 bits of an unsigned int, p is at least rate and at
\* most 100, and with startups = max_startups p is 100 and the attempt is
\* dropped for every draw.
C35_ProbabilityInRange ==
    (last.op = "can_start_auth" /\ DrawsForStart(last.startups)) =>
        /\ max_startups - max_startups_begin > 0
        /\ mul_limbs(100 - max_startups_rate,
                     last.startups - max_startups_begin).carry = 0
        /\ can_start_p(last.startups, max_startups_begin, max_startups_rate,
                       max_startups) >= max_startups_rate
        /\ can_start_p(last.startups, max_startups_begin, max_startups_rate,
                       max_startups) <= 100
        /\ last.startups = max_startups =>
              /\ can_start_p(last.startups, max_startups_begin, max_startups_rate,
                             max_startups) = 100
              /\ ~last.admitted

(* ------------------------------------------------------------------ *)
(* Suspended dialogues and the count of attempts                       *)
(* ------------------------------------------------------------------ *)

\* the attempts of a behaviour of the suspension model
MaxSuspended == 4

\* a manager with MaxStartups = "1:50:2"
dTight ==
    [max_startups |-> Str(<<49,58,53,48,58,50>>), loopback |-> FALSE, conf |-> NoHeaders]

\* The suspension model: negotiate logins on a manager that admits at most
\* two attempts at a time, whose helpers prompt and then wait for an
\* X-Login-Reply that does not come
SuspendRequest ==
    \E r \in Draws :
        cockpit_auth_login_async_upto(MaxSuspended, sAppPath,
                                      [Authorization |-> hNegotiate], r, TRUE)

SuspendNext ==
    \/ SuspendRequest
    \/ LoginFinish
    \/ PipeMessage({rPrompt})

SuspendSpec == Init({dTight}) /\ [][SuspendNext]_vars

\* the attempts that admission dropped and whose login_finish has not run
DroppedUnfinished(rs) == { t \in DOMAIN rs : rs[t] = dropped_result }

C36_Step ==
    /\ begun' = begun + 1 =>
          /\ startups' = startups + 1
          /\ ~last'.admitted =>
                /\ begun' \in DroppedUnfinished(results')
                /\ authentication_pending' = authentication_pending
    /\ (begun' = begun /\ results' # results /\ DOMAIN results' # DOMAIN results) =>
          /\ startups' = startups - 1
          /\ Cardinality(DOMAIN results \ DOMAIN results') = 1
    /\ authentication_pending' \ authentication_pending # {} =>
          /\ startups' = startups - 1
          /\ Cardinality(authentication_pending') = Cardinality(authentication_pending) + 1
    /\ (begun' = begun /\ DOMAIN results' = DOMAIN results) => startups' = startups
    /\ Cardinality(DroppedUnfinished(results')) <= startups'
    /\ startups' = Cardinality(DOMAIN results')

\* C36: startups counts the attempts between login_async and login_finish
\* and nothing else.  Every login_async adds one, also for the attempt that
\* admission drops, which stays counted while its dropped result waits for
\* login_finish; every login_finish takes one off, also the one that
\* suspends its dialogue in authentication_pending; no other step changes
\* it.  So the dialogues in authentication_pending are not counted, and
\* their number is not held below max_startups.
C36_StartupsCountsRequestsOnly == [][C36_Step]_vars

\* three dialogues wait in authentication_pending of a manager whose
\* max_startups is 2, each with its helper running, none of them counted;
\* the fourth attempt was dropped and is the only one counted
C36_Witness ==
    /\ max_startups = 2
    /\ Cardinality(authentication_pending) = 3
    /\ \A id \in authentication_pending :
          /\ id \in DOMAIN auth_data
          /\ auth_data[id].pending_result = 0
          /\ procs[auth_data[id].process_pid] = "running"
    /\ startups = 1
    /\ DroppedUnfinished(results) = {4}

(* ------------------------------------------------------------------ *)
(* The references on a dialogue                                        *)
(* ------------------------------------------------------------------ *)

\* the unfinished results whose op_res is the dialogue id
BoundTo(rs, id) == { t \in DOMAIN rs : ~rs[t].ad.null /\ rs[t].ad.s = id }

\* the dialogue id is held: by the table or by an unfinished result
Held(pending, rs, id) == id \in pending \/ BoundTo(rs, id) # {}

\* the holders of the dialogue id
Holders(pending, rs, id) ==
    (IF id \in pending THEN 1 ELSE 0) + Cardinality(BoundTo(rs, id))

\* the nonces issued so far
Issued == { issued[i] : i \in 1..Len(issued) }

C37_Step ==
    /\ \A id \in authentication_pending' :
          /\ id \in DOMAIN auth_data'
          /\ auth_data'[id].pending_result = 0
    /\ \A id \in DOMAIN auth_data' :
          /\ auth_data'[id].refs >= 1
          /\ auth_data'[id].refs = Holders(authentication_pending', results', id)
          /\ auth_data'[id].pending_result # 0 =>
                auth_data'[id].pending_result \in BoundTo(results', id)
    /\ \A t \in DOMAIN results' :
          ~results'[t].ad.null => results'[t].ad.s \in DOMAIN auth_data'
    /\ \A id \in DOMAIN auth_data \ DOMAIN auth_data' :
          /\ auth_data[id].pending_result = 0
          /\ Held(authentication_pending, results, id)
          /\ ~Held(authentication_pending', results', id)
          /\ (auth_data[id].tag = "spawn" /\ auth_data[id].process_pid # 0) =>
                procs'[auth_data[id].process_pid] # "running"
    /\ \A id \in DOMAIN auth_data' \ DOMAIN auth_data : id \notin Issued

\* C37: a dialogue in authentication_pending has no result attached, and a
\* dialogue with a result attached is bound to that result; the reference
\* count of every live dialogue is the number of its holders (the table and
\* the unfinished results bound to it) and so at least 1; a dialogue is
\* freed only with no result attached, in the step that takes its last
\* holder away, its child does not stay running, and its id is never given
\* to a later dialogue, so it is torn down once.
C37_HeldWhileReferenced == [][C37_Step]_vars

\* the only dialogue there was, that of attempt 1, went to the table, was
\* taken out by the resume of attempt 2, whose result it was bound to when
\* its pipe timed out, and was freed when that request finished: its child
\* was sent SIGTERM
C37_Witness ==
    /\ last.op = "login_finish"
    /\ last.task = 2
    /\ last.error = eTimeout
    /\ begun = 2
    /\ Len(issued) = 1
    /\ results = NoSessions
    /\ auth_data = NoSessions
    /\ authentication_pending = {}
    /\ 1 \in DOMAIN procs
    /\ 2 \notin DOMAIN procs
    /\ procs[1] = "killed"

(* ------------------------------------------------------------------ *)
(* The process idle timer                                              *)
(* ------------------------------------------------------------------ *)

\* the step is a report of a session's web service: "idling" or "destroy"
SessionReports == last'.op \in {"on_web_service_idling", "on_web_service_destroy"}

\* the step runs on_web_service_idling: on a report of a web service, or
\* in cockpit_auth_login_finish for the session it creates
RunsIdlingHandler ==
    SessionReports \/ DOMAIN authenticated' \ DOMAIN authenticated # {}

\* on_process_timeout leaves no source and no tag, whether it emitted or
\* not, and "idling" is emitted only by an armed timer that fires
OneShot ==
    /\ last'.op = "on_process_timeout" => ~timeout_tag' /\ sources'.process = 0
    /\ sig_idling' # sig_idling => timeout_tag /\ last'.op = "on_process_timeout"
    /\ ~timeout_tag => sig_idling' = sig_idling

\* the process idle timer has fired while a table was not empty: it is not
\* armed, and no firing has emitted "idling"
FiredInVain == ~timeout_tag /\ sig_idling = 0

C38_StatedStep ==
    /\ OneShot
    /\ (FiredInVain /\ timeout_tag') => SessionReports

\* C38 as stated: the process idle timer is one-shot, and after it has fired
\* while a table was not empty it is armed again, and so "idling" can be
\* emitted again, only when a session reports idling or destroyed.
C38_RearmedOnlyByReports == [][C38_StatedStep]_vars

C38_Step ==
    /\ OneShot
    /\ (~timeout_tag /\ timeout_tag') => RunsIdlingHandler

\* C38, amended: the process idle timer is one-shot: a firing leaves it
\* unarmed whether or not "idling" was emitted, nothing is emitted while it
\* is unarmed, also when both tables become empty, and it is armed again
\* only by a run of on_web_service_idling: when a session reports idling or
\* destroyed, or when cockpit_auth_login_finish creates a session.
C38_RearmedOnlyByIdlingHandler == [][C38_Step]_vars

\* the timer fired while a session was there and emitted nothing; the
\* session has gone since without a report, both tables are empty and the
\* timer is not armed
C38_Witness ==
    /\ FiredInVain
    /\ sources.process = 0
    /\ DOMAIN authenticated = {}
    /\ authentication_pending = {}
    /\ removed # {}
    /\ last.op \in {"on_authenticated_timeout", "on_web_service_gone"}

====
